---------------------------- MODULE Spec2Model ----------------------------
(***************************************************************************)
(* A model of the RF site data correction engine                           *)
(* (src/src/correction_engine.py, extended_cell_detector.py,               *)
(* template_manager.py, blank_filler.py) and of main (src/main.py).        *)
(*                                                                         *)
(* correction_engine.py holds unresolved merge-conflict markers.  Wherever *)
(* the two sides differ the model follows the stashed-changes side: it     *)
(* is the side that uses the template manager and the extended-cell        *)
(* detector, which the rest of the repository (main.py,                    *)
(* extended_cell_detector.py, template_manager.py) is written against.     *)
(*                                                                         *)
(* Representation.                                                         *)
(*  - A character is a one-character string; a Python str is a sequence    *)
(*    of characters.                                                       *)
(*  - A number is an exact decimal, held as an integer count of 10^-7      *)
(*    (One == 10^7), so that round(x, 6) is a real rounding.  Binary       *)
(*    floating-point error is outside the model.                           *)
(*  - A cell value is a record [k, n, s]: k = "num" (n is the number),     *)
(*    k = "str" (s is the text), k = "nan" (a blank spreadsheet cell,      *)
(*    pandas NaN) or k = "none" (Python None).                             *)
(***************************************************************************)
EXTENDS Integers, Sequences, FiniteSets, TLC

(***************************************************************************)
(* Values                                                                  *)
(***************************************************************************)
\* round(..., 6): the decimals the engine keeps; the model keeps one more
RoundDigits == 6
FracDigits == RoundDigits + 1

RECURSIVE Pow10(_)
Pow10(e) == IF e <= 0 THEN 1 ELSE 10 * Pow10(e - 1)

One == Pow10(FracDigits)

Num(n) == [k |-> "num", n |-> n, s |-> <<>>]
Str(s) == [k |-> "str", n |-> 0, s |-> s]
NaN == [k |-> "nan", n |-> 0, s |-> <<>>]
None == [k |-> "none", n |-> 0, s |-> <<>>]

\* Bind(e, LAMBDA x : body) is body with x naming the value of e
Bind(value, In(_)) == In(value)

\* pd.isna(v): NaN and None are both missing
IsNa(v) == v.k \in {"nan", "none"}

\* Python truthiness of a value: `if v`
Truthy(v) ==
    CASE v.k = "num" -> v.n # 0
      [] v.k = "str" -> v.s # <<>>
      [] v.k = "nan" -> TRUE
      [] OTHER -> FALSE

\* Python `a != b`: NaN differs from everything, itself included
PyNe(a, b) == a.k = "nan" \/ b.k = "nan" \/ a # b

(***************************************************************************)
(* Characters and strings                                                  *)
(***************************************************************************)
Digits == {"0", "1", "2", "3", "4", "5", "6", "7", "8", "9"}

LowerLetters == <<"a", "b", "c", "d", "e", "f", "g", "h", "i", "j", "k", "l", "m",
                  "n", "o", "p", "q", "r", "s", "t", "u", "v", "w", "x", "y", "z">>

UpperLetters == <<"A", "B", "C", "D", "E", "F", "G", "H", "I", "J", "K", "L", "M",
                  "N", "O", "P", "Q", "R", "S", "T", "U", "V", "W", "X", "Y", "Z">>

UpperChar(c) ==
    IF \E i \in 1..26 : LowerLetters[i] = c
    THEN UpperLetters[CHOOSE i \in 1..26 : LowerLetters[i] = c]
    ELSE c

LowerChar(c) ==
    IF \E i \in 1..26 : UpperLetters[i] = c
    THEN LowerLetters[CHOOSE i \in 1..26 : UpperLetters[i] = c]
    ELSE c

\* str.upper() / str.lower()
Upper(s) == [i \in 1..Len(s) |-> UpperChar(s[i])]
Lower(s) == [i \in 1..Len(s) |-> LowerChar(s[i])]

RECURSIVE LStrip(_)
LStrip(s) == IF s # <<>> /\ Head(s) = " " THEN LStrip(Tail(s)) ELSE s

RECURSIVE RStrip(_)
RStrip(s) ==
    IF s # <<>> /\ s[Len(s)] = " " THEN RStrip(SubSeq(s, 1, Len(s) - 1)) ELSE s

\* str.strip()
Strip(s) == RStrip(LStrip(s))

DigitVal(c) ==
    CASE c = "0" -> 0 [] c = "1" -> 1 [] c = "2" -> 2 [] c = "3" -> 3
      [] c = "4" -> 4 [] c = "5" -> 5 [] c = "6" -> 6 [] c = "7" -> 7
      [] c = "8" -> 8 [] c = "9" -> 9 [] OTHER -> 0

\* the index of the first c in s at or after i, 0 when there is none
RECURSIVE IndexFrom(_, _, _)
IndexFrom(s, c, i) ==
    IF i > Len(s) THEN 0
    ELSE IF s[i] = c THEN i
    ELSE IndexFrom(s, c, i + 1)

\* the index just past the run of digits that starts at i
RECURSIVE DigitsEnd(_, _)
DigitsEnd(s, i) ==
    IF i <= Len(s) /\ s[i] \in Digits THEN DigitsEnd(s, i + 1) ELSE i

(***************************************************************************)
(* float(x) on text: optional surrounding blanks, an optional sign, digits *)
(* with an optional decimal point and at least one digit.  Anything else   *)
(* raises ValueError (ok = FALSE).  Digits past the seventh decimal, and   *)
(* the exponents and the words nan, inf and infinity that float accepts,   *)
(* are outside the model's vocabulary.                                     *)
(***************************************************************************)
RECURSIVE IntOf(_, _)
IntOf(s, acc) == IF s = <<>> THEN acc ELSE IntOf(Tail(s), acc * 10 + DigitVal(Head(s)))

ParseUnsigned(body) ==
    Bind(DigitsEnd(body, 1), LAMBDA ie :
    Bind(IF ie <= Len(body) /\ body[ie] = "." THEN ie + 1 ELSE ie, LAMBDA fs :
    Bind(SubSeq(body, fs, DigitsEnd(body, fs) - 1), LAMBDA fracpart :
    Bind(SubSeq(fracpart, 1, IF Len(fracpart) < FracDigits THEN Len(fracpart)
                             ELSE FracDigits), LAMBDA frac7 :
        IF fs + Len(fracpart) = Len(body) + 1 /\ (ie - 1) + Len(fracpart) > 0
        THEN [ok |-> TRUE,
              n |-> IntOf(SubSeq(body, 1, ie - 1), 0) * One
                      + IntOf(frac7, 0) * Pow10(FracDigits - Len(frac7))]
        ELSE [ok |-> FALSE, n |-> 0]))))

ParseFloat(text) ==
    Bind(Strip(text), LAMBDA t :
        IF t # <<>> /\ Head(t) \in {"-", "+"}
        THEN Bind(ParseUnsigned(Tail(t)), LAMBDA r :
                 [ok |-> r.ok, n |-> IF Head(t) = "-" THEN 0 - r.n ELSE r.n])
        ELSE ParseUnsigned(t))

\* float(v) for a cell value; ok = FALSE stands for ValueError
ToFloat(v) ==
    IF v.k = "num" THEN [ok |-> TRUE, n |-> v.n] ELSE ParseFloat(v.s)

(***************************************************************************)
(* parse_list_values: re.findall of a pattern with three alternatives,     *)
(* tried in this order at each position: a single-quoted run without       *)
(* single quotes, a double-quoted run without double quotes, a bare        *)
(* number (optional minus, digits, optional point, digits).  The scan goes *)
(* left to right and empty tokens are dropped.                             *)
(***************************************************************************)
RECURSIVE Tokens(_, _)
Tokens(s, i) ==
    IF i > Len(s) THEN <<>>
    ELSE IF s[i] = "'" /\ IndexFrom(s, "'", i + 1) # 0
    THEN LET j == IndexFrom(s, "'", i + 1)
             tok == SubSeq(s, i + 1, j - 1)
         IN  (IF tok = <<>> THEN <<>> ELSE <<Str(tok)>>) \o Tokens(s, j + 1)
    ELSE IF s[i] = "\"" /\ IndexFrom(s, "\"", i + 1) # 0
    THEN LET j == IndexFrom(s, "\"", i + 1)
             tok == SubSeq(s, i + 1, j - 1)
         IN  (IF tok = <<>> THEN <<>> ELSE <<Str(tok)>>) \o Tokens(s, j + 1)
    ELSE IF s[i] \in Digits \/ (s[i] = "-" /\ i < Len(s) /\ s[i + 1] \in Digits)
    THEN LET d == IF s[i] = "-" THEN i + 1 ELSE i
             ie == DigitsEnd(s, d)
             fe == IF ie <= Len(s) /\ s[ie] = "." THEN DigitsEnd(s, ie + 1) ELSE ie
         IN  <<Str(SubSeq(s, i, fe - 1))>> \o Tokens(s, fe)
    ELSE Tokens(s, i + 1)

parse_list_values(value_str) ==
    IF IsNa(value_str) \/ value_str = Str(<<"[", "]">>) THEN <<>>
    ELSE IF value_str.k = "str" THEN Tokens(value_str.s, 1)
    ELSE <<value_str>>

(***************************************************************************)
(* Sequence helpers                                                        *)
(***************************************************************************)
\* [f(x) for x in s if p(x)]
FilterSeq(s, P(_)) ==
    LET idx == {i \in 1..Len(s) : P(s[i])}
    IN  [k \in 1..Cardinality(idx) |->
            s[CHOOSE i \in idx : Cardinality({j \in idx : j <= i}) = k]]

MapSeq(s, F(_)) == [i \in 1..Len(s) |-> F(s[i])]

Range(s) == {s[i] : i \in 1..Len(s)}

\* the number of entries of s equal to x
CountOf(s, x) == Cardinality({i \in 1..Len(s) : s[i] = x})

\* sorted(s) for a sequence of integers
RECURSIVE InsertSorted(_, _)
InsertSorted(s, x) ==
    IF s = <<>> THEN <<x>>
    ELSE IF x <= Head(s) THEN <<x>> \o s
    ELSE <<Head(s)>> \o InsertSorted(Tail(s), x)

RECURSIVE SortInts(_)
SortInts(s) == IF s = <<>> THEN <<>> ELSE InsertSorted(SortInts(Tail(s)), Head(s))

MaxInt(s) == CHOOSE x \in Range(s) : \A y \in Range(s) : y <= x
MinInt(s) == CHOOSE x \in Range(s) : \A y \in Range(s) : x <= y

\* the first index of s whose key is maximal: Python max(s, key=...)
FirstMaxIndex(s, Key(_)) ==
    CHOOSE i \in 1..Len(s) :
        /\ \A j \in 1..Len(s) : Key(s[j]) <= Key(s[i])
        /\ \A j \in 1..(i - 1) : Key(s[j]) < Key(s[i])

\* Counter(s).most_common(1)[0][0]: the most frequent entry, the one met
\* first among equally frequent ones
MostCommon(s) ==
    LET i == CHOOSE i \in 1..Len(s) :
                 /\ \A j \in 1..Len(s) : CountOf(s, s[j]) <= CountOf(s, s[i])
                 /\ \A j \in 1..(i - 1) : CountOf(s, s[j]) < CountOf(s, s[i])
    IN  s[i]

(***************************************************************************)
(* Configuration (config/settings.yaml is not part of the repository: the  *)
(* values are inputs of the engine, fixed here).                           *)
(***************************************************************************)
\* config['geographic_validation']
latitude_min == 0 * One
latitude_max == 5 * One
longitude_min == 0 * One
longitude_max == 5 * One

\* config['structure_validation']
height_min == 1 * One
height_max == 100 * One

\* config['coordinate_threshold'] = 0.0001
coordinate_threshold == One \div 10000

\* config['structure_type_priority']; priority.get(x, -1)
TypeTower == <<"T", "O", "W", "E", "R">>
TypeMast == <<"M", "A", "S", "T">>
TypePole == <<"P", "O", "L", "E">>

structure_type_priority(x) ==
    CASE x = TypeTower -> 3
      [] x = TypeMast -> 2
      [] x = TypePole -> 1
      [] OTHER -> 0 - 1

(***************************************************************************)
(* Attribute selectors                                                     *)
(***************************************************************************)
\* what a selector yields when the Python code raises
Raise == [k |-> "raise", n |-> 0, s |-> <<>>]

\* twice np.median(xs), xs a non-empty sequence of numbers
Median2(xs) ==
    LET srt == SortInts(xs)
        n == Len(srt)
    IN  IF n % 2 = 1 THEN 2 * srt[(n + 1) \div 2]
        ELSE srt[n \div 2] + srt[n \div 2 + 1]

\* x2 / 2 cut after the sixth decimal
Truncate6Half(x2) == 10 * (x2 \div 20)

\* round(x2 / 2, 6): to the nearest multiple of 10^-6, a tie to the even one
Round6Half(x2) ==
    LET q == x2 \div 20
        r == x2 % 20
    IN  IF r < 10 THEN 10 * q
        ELSE IF r > 10 THEN 10 * (q + 1)
        ELSE IF q % 2 = 0 THEN 10 * q ELSE 10 * (q + 1)

\* the numbers of the entries that float(x) accepts, the others left out
FloatsOfParsable(lst) ==
    Bind(FilterSeq(MapSeq(FilterSeq(lst, Truthy), ToFloat), LAMBDA f : f.ok), LAMBDA fl :
        [ok |-> TRUE, xs |-> [i \in 1..Len(fl) |-> fl[i].n]])

\* [float(x) for x in lst if x]; ok = FALSE when some float(x) raises ValueError
FloatsOf(lst) ==
    Bind(MapSeq(FilterSeq(lst, Truthy), ToFloat), LAMBDA fl :
        [ok |-> \A i \in 1..Len(fl) : fl[i].ok,
         xs |-> [i \in 1..Len(fl) |-> fl[i].n]])

InRange(lo, hi, x) == lo <= x /\ x <= hi

\* the shared body of select_best_latitude and select_best_longitude;
\* threshold is config['coordinate_threshold']
SelectCoordinate(lst, lo, hi, threshold) ==
    IF lst = <<>> THEN None
    ELSE Bind(FloatsOf(lst), LAMBDA fl :
         Bind(FilterSeq(fl.xs, LAMBDA x : InRange(lo, hi, x)), LAMBDA valid :
             IF ~fl.ok THEN None
             ELSE IF valid = <<>> THEN None
             ELSE IF MaxInt(valid) - MinInt(valid) < threshold
             THEN Num(Round6Half(Median2(valid)))
             ELSE Num(Round6Half(Median2(valid)))))

select_best_latitude(lat_list) ==
    SelectCoordinate(lat_list, latitude_min, latitude_max, coordinate_threshold)

select_best_longitude(lon_list) ==
    SelectCoordinate(lon_list, longitude_min, longitude_max, coordinate_threshold)

\* the largest height reported, within the bounds or not
select_largest_height(height_list) ==
    IF height_list = <<>> THEN None
    ELSE Bind(FloatsOf(height_list), LAMBDA fl :
             IF ~fl.ok THEN None
             ELSE IF fl.xs = <<>> THEN None
             ELSE Num(MaxInt(fl.xs)))

select_best_structure_height(height_list) ==
    IF height_list = <<>> THEN None
    ELSE Bind(FloatsOf(height_list), LAMBDA fl :
         Bind(FilterSeq(fl.xs, LAMBDA h : InRange(height_min, height_max, h)), LAMBDA valid :
             IF ~fl.ok THEN None
             ELSE IF valid = <<>> THEN None
             ELSE Num(MaxInt(valid))))

\* the owner in capitals, its blanks kept
upper_owner(owner) ==
    IF ~Truthy(owner) THEN None
    ELSE IF owner.k # "str" THEN Raise
    ELSE Str(Upper(owner.s))

\* owner.upper().strip(); a number has no upper(): AttributeError
normalize_owner(owner) ==
    IF ~Truthy(owner) THEN None
    ELSE IF owner.k # "str" THEN Raise
    ELSE Str(Strip(Upper(owner.s)))

select_best_structure_owner(owner_list) ==
    IF owner_list = <<>> THEN None
    ELSE Bind(MapSeq(FilterSeq(owner_list, Truthy), normalize_owner), LAMBDA normalized :
             IF \E i \in 1..Len(normalized) : normalized[i] = Raise THEN Raise
             ELSE IF normalized = <<>> THEN None
             ELSE MostCommon(normalized))

\* str(v): text as it is; a number as Python prints a float, the integer
\* part, a point and the decimals without trailing zeros (at least one)
DigitChars == <<"0", "1", "2", "3", "4", "5", "6", "7", "8", "9">>

RECURSIVE DigitsOf(_)
DigitsOf(n) ==
    IF n < 10 THEN <<DigitChars[n + 1]>>
    ELSE DigitsOf(n \div 10) \o <<DigitChars[(n % 10) + 1]>>

RECURSIVE FracOf(_, _)
FracOf(f, width) ==
    IF width = 0 \/ (f = 0 /\ width < FracDigits) THEN <<>>
    ELSE <<DigitChars[(f \div Pow10(width - 1)) + 1]>> \o FracOf(f % Pow10(width - 1), width - 1)

PyStr(v) ==
    IF v.k = "str" THEN v.s
    ELSE LET mag == IF v.n < 0 THEN 0 - v.n ELSE v.n
         IN  (IF v.n < 0 THEN <<"-">> ELSE <<>>)
             \o DigitsOf(mag \div One) \o <<".">> \o FracOf(mag % One, FracDigits)

\* the choice of select_best_name when no template reference applies:
\* the longest name, the first one among equally long names
select_best_name_default(valid_names) ==
    valid_names[FirstMaxIndex(valid_names, Len)]

\* [str(t).strip() for t in type_list if t and str(t).strip() != '-']
ValidTypes(type_list) ==
    MapSeq(FilterSeq(type_list, LAMBDA t : Truthy(t) /\ Strip(PyStr(t)) # <<"-">>),
           LAMBDA t : Strip(PyStr(t)))

\* the last of the candidates of the highest priority
select_last_structure_type(type_list) ==
    IF ValidTypes(type_list) = <<>> THEN None
    ELSE Bind(ValidTypes(type_list), LAMBDA valid_types :
            Str(valid_types[CHOOSE i \in 1..Len(valid_types) :
                    /\ \A j \in 1..Len(valid_types) :
                          structure_type_priority(valid_types[j])
                              <= structure_type_priority(valid_types[i])
                    /\ \A j \in (i + 1)..Len(valid_types) :
                          structure_type_priority(valid_types[j])
                              < structure_type_priority(valid_types[i])]))

select_best_structure_type(type_list) ==
    IF type_list = <<>> THEN None
    ELSE LET valid_types == ValidTypes(type_list)
         IN  IF valid_types = <<>> THEN None
             ELSE Str(valid_types[FirstMaxIndex(valid_types, structure_type_priority)])

(***************************************************************************)
(* calculate_discrepancy_score: (unique - 1) / total as the exact fraction *)
(* [num, den]                                                              *)
(***************************************************************************)
\* unique / total, without the subtraction
unique_ratio(values_list) ==
    IF Len(values_list) <= 1 \/ FilterSeq(values_list, Truthy) = <<>>
    THEN [num |-> 0, den |-> 1]
    ELSE Bind(FilterSeq(values_list, Truthy), LAMBDA kept :
            [num |-> Cardinality({PyStr(kept[i]) : i \in 1..Len(kept)}),
             den |-> Len(kept)])

calculate_discrepancy_score(values_list) ==
    IF values_list = <<>> \/ Len(values_list) <= 1 THEN [num |-> 0, den |-> 1]
    ELSE LET kept == FilterSeq(values_list, Truthy)
             unique_values == Cardinality({PyStr(kept[i]) : i \in 1..Len(kept)})
             total_values == Len(kept)
         IN  IF total_values = 0 THEN [num |-> 0, den |-> 1]
             ELSE [num |-> unique_values - 1, den |-> total_values]

\* a / b + c / d
FracAdd(x, y) == [num |-> x.num * y.den + y.num * x.den, den |-> x.den * y.den]

\* x > y for fractions with positive denominators
FracGt(x, y) == x.num * y.den > y.num * x.den

(***************************************************************************)
(* Tables.  A row maps every column name of the model to a cell value; a   *)
(* sheet is [name, cols, rows], cols being the columns the sheet really    *)
(* has (a cell of a column outside cols is NaN, as after pd.concat).  The  *)
(* workbook all_sheets is the sequence of its sheets, in file order.       *)
(***************************************************************************)
Columns == {"station_id", "station_cell_id", "name", "latitude", "longitude",
            "structure_height", "structure_owner", "structure_type", "tx_type",
            "cell_type"}

\* the indices of the rows of the station: df['station_id'] == station_id
StationRows(rows, station_id) == {i \in 1..Len(rows) : rows[i]["station_id"] = station_id}

\* df[mask]: the rows at the indices idx, in table order
SelectRows(rows, idx) ==
    [k \in 1..Cardinality(idx) |->
        rows[CHOOSE i \in idx : Cardinality({j \in idx : j <= i}) = k]]

\* Series.unique(): the distinct values in order of first appearance
Unique(vals) ==
    FilterSeq([i \in 1..Len(vals) |-> [i |-> i, v |-> vals[i]]],
              LAMBDA e : \A j \in 1..(e.i - 1) : vals[j] # e.v)

UniqueValues(vals) == MapSeq(Unique(vals), LAMBDA e : e.v)

\* pd.concat(parts): the rows of all the tables, one after the other
RECURSIVE ConcatRows(_)
ConcatRows(tables) ==
    IF tables = <<>> THEN <<>> ELSE Head(tables).rows \o ConcatRows(Tail(tables))

ConcatCols(tables) == UNION {tables[i].cols : i \in 1..Len(tables)}

(***************************************************************************)
(* ExtendedCellDetector                                                    *)
(***************************************************************************)
\* config.get('extended_cell_distance_threshold', 0.01); set to 0.001 here
distance_threshold == One \div 1000

ExtendedCellMarker == <<"E", "x", "t", "e", "n", "d", "e", "d", " ", "C", "e", "l", "l">>

\* a comparison that also holds at the threshold
DistanceReaches(lat1, lon1, lat2, lon2, threshold) ==
    /\ ~IsNa(lat1) /\ ~IsNa(lon1) /\ ~IsNa(lat2) /\ ~IsNa(lon2)
    /\ (lat2.n - lat1.n) * (lat2.n - lat1.n) + (lon2.n - lon1.n) * (lon2.n - lon1.n)
          >= threshold * threshold

\* calculate_distance(...) > threshold, on the squares (the distance is a
\* square root, compared exactly); FALSE when a coordinate is missing
DistanceExceeds(lat1, lon1, lat2, lon2, threshold) ==
    /\ ~IsNa(lat1) /\ ~IsNa(lon1) /\ ~IsNa(lat2) /\ ~IsNa(lon2)
    /\ (lat2.n - lat1.n) * (lat2.n - lat1.n) + (lon2.n - lon1.n) * (lon2.n - lon1.n)
          > threshold * threshold

\* re.match('^' + re.escape(station_id) + 'R\d+$', str(cell_id), re.IGNORECASE)
follows_extended_nomenclature(station_id, cell_id) ==
    IF ~Truthy(station_id) \/ ~Truthy(cell_id) THEN FALSE
    ELSE LET sid == Lower(station_id.s)
             cid == Lower(IF cell_id.k = "nan" THEN <<"n", "a", "n">> ELSE PyStr(cell_id))
             n == Len(sid)
         IN  /\ Len(cid) >= n + 2
             /\ SubSeq(cid, 1, n) = sid
             /\ cid[n + 1] = "r"
             /\ \A i \in (n + 2)..Len(cid) : cid[i] \in Digits

\* the key order of groupby(['latitude', 'longitude']): sorted by latitude,
\* then longitude
LocationLess(a, b) == a[1] < b[1] \/ (a[1] = b[1] /\ a[2] < b[2])

\* station_data: [cols, rows], all sectors of one station
detect_extended_cells_in_station(station_data) ==
    LET rows == station_data.rows
        station_id == rows[1]["station_id"]
        located == {i \in 1..Len(rows) :
                        ~IsNa(rows[i]["latitude"]) /\ ~IsNa(rows[i]["longitude"])}
        Loc(i) == <<rows[i]["latitude"].n, rows[i]["longitude"].n>>
        locations == {Loc(i) : i \in located}
        Size(l) == Cardinality({i \in located : Loc(i) = l})
        \* group_sizes.idxmax(): the largest group, the first in key order
        main == CHOOSE l \in locations :
                    /\ \A m \in locations : Size(m) <= Size(l)
                    /\ \A m \in locations : Size(m) = Size(l) => (m = l \/ LocationLess(l, m))
        flagged == {i \in 1..Len(rows) :
                        /\ follows_extended_nomenclature(station_id, rows[i]["station_cell_id"])
                        /\ DistanceExceeds(Num(main[1]), Num(main[2]),
                                           rows[i]["latitude"], rows[i]["longitude"],
                                           distance_threshold)}
    IN  IF rows = <<>> THEN <<>>
        ELSE IF ~({"station_cell_id", "latitude", "longitude"} \subseteq station_data.cols)
        THEN <<>>
        ELSE IF Cardinality(locations) <= 1 THEN <<>>
        ELSE MapSeq(SelectRows(rows, flagged), LAMBDA r : r["station_cell_id"])

\* mark_extended_cells(df, extended_cells_list), df one sheet
mark_extended_cells(df, extended_cells_list) ==
    IF extended_cells_list = <<>> THEN df
    ELSE IF "cell_type" \notin df.cols THEN df
    ELSE IF "station_cell_id" \notin df.cols THEN df
    ELSE [df EXCEPT !.rows =
            [i \in 1..Len(df.rows) |->
                IF df.rows[i]["station_cell_id"] \in Range(extended_cells_list)
                THEN [df.rows[i] EXCEPT !["cell_type"] = Str(ExtendedCellMarker)]
                ELSE df.rows[i]]]

(***************************************************************************)
(* TemplateManager.  tm is [active, cols, rows]: active = FALSE stands for *)
(* the engine's template_manager being None; rows is df_template.          *)
(***************************************************************************)
\* config['name_similarity']: use_fuzzy_matching, similarity_threshold = 0.8
use_fuzzy_matching == TRUE
similarity_threshold == [num |-> 4, den |-> 5]

\* template_by_station.get_group(station_id); <<>> stands for None (KeyError)
get_station_data(tm, station_id) ==
    IF "station_id" \notin tm.cols THEN <<>>
    ELSE SelectRows(tm.rows, StationRows(tm.rows, station_id))

\* name.replace('.', '').replace(',', '').replace('-', ' ')
RECURSIVE StripPunctuation(_)
StripPunctuation(s) ==
    IF s = <<>> THEN <<>>
    ELSE (CASE Head(s) \in {".", ","} -> <<>>
            [] Head(s) = "-" -> <<" ">>
            [] OTHER -> <<Head(s)>>) \o StripPunctuation(Tail(s))

\* ' '.join(s.split()): runs of blanks become one blank, none at the ends
RECURSIVE CollapseBlanks(_)
CollapseBlanks(s) ==
    IF s = <<>> THEN <<>>
    ELSE IF Head(s) = " " /\ (Len(s) = 1 \/ s[2] = " ") THEN CollapseBlanks(Tail(s))
    ELSE <<Head(s)>> \o CollapseBlanks(Tail(s))

NormalizeName(s) == CollapseBlanks(LStrip(StripPunctuation(Strip(Lower(s)))))

\* the length of the common run of a from i and b from j, within ahi and bhi
RECURSIVE RunLength(_, _, _, _, _, _)
RunLength(a, b, i, j, ahi, bhi) ==
    IF i <= ahi /\ j <= bhi /\ a[i] = b[j] THEN 1 + RunLength(a, b, i + 1, j + 1, ahi, bhi)
    ELSE 0

\* difflib.SequenceMatcher.get_matching_blocks: the total size of the
\* matching blocks of a[alo..ahi] and b[blo..bhi]; the longest block first
\* (the earliest in a, then the earliest in b), then left and right of it
RECURSIVE MatchingSize(_, _, _, _, _, _)
MatchingSize(a, b, alo, ahi, blo, bhi) ==
    IF alo > ahi \/ blo > bhi THEN 0
    ELSE Bind([p \in (alo..ahi) \X (blo..bhi) |-> RunLength(a, b, p[1], p[2], ahi, bhi)],
              LAMBDA K :
         Bind(CHOOSE p \in DOMAIN K :
                  \A q \in DOMAIN K :
                      \/ K[q] < K[p]
                      \/ /\ K[q] = K[p]
                         /\ (p[1] < q[1] \/ (p[1] = q[1] /\ p[2] <= q[2])),
              LAMBDA best :
             IF K[best] = 0 THEN 0
             ELSE K[best] + MatchingSize(a, b, alo, best[1] - 1, blo, best[2] - 1)
                    + MatchingSize(a, b, best[1] + K[best], ahi, best[2] + K[best], bhi)))

\* SequenceMatcher(None, n1, n2).ratio() as the fraction 2 * M / T
calculate_name_similarity(name1, name2) ==
    IF name1 = <<>> \/ name2 = <<>> THEN [num |-> 0, den |-> 1]
    ELSE Bind(NormalizeName(name1), LAMBDA n1 :
         Bind(NormalizeName(name2), LAMBDA n2 :
             IF Len(n1) + Len(n2) = 0 THEN [num |-> 1, den |-> 1]
             ELSE [num |-> 2 * MatchingSize(n1, n2, 1, Len(n1), 1, Len(n2)),
                   den |-> Len(n1) + Len(n2)]))

\* the non-null values of a column of the station's template rows
ColumnValues(rows, col) == MapSeq(rows, LAMBDA r : r[col])

\* the name of the template whatever the candidates are
get_template_name(tm, station_id, candidate_names) ==
    Bind(get_station_data(tm, station_id), LAMBDA station_data :
    Bind(UniqueValues(FilterSeq(ColumnValues(station_data, "name"), LAMBDA v : ~IsNa(v))),
         LAMBDA template_names :
        IF station_data = <<>> \/ "name" \notin tm.cols \/ template_names = <<>> THEN None
        ELSE template_names[1]))

\* candidate_names: a sequence of texts.  None: the template has no opinion
get_reference_name(tm, station_id, candidate_names) ==
    Bind(get_station_data(tm, station_id), LAMBDA station_data :
    Bind(UniqueValues(FilterSeq(ColumnValues(station_data, "name"), LAMBDA v : ~IsNa(v))),
         LAMBDA template_names :
        IF station_data = <<>> THEN None
        ELSE IF "name" \notin tm.cols THEN None
        ELSE IF template_names = <<>> THEN None
        ELSE IF candidate_names = <<>> THEN template_names[1]
        ELSE IF \E i \in 1..Len(candidate_names) : candidate_names[i] = template_names[1].s
        THEN template_names[1]
        ELSE Bind(MapSeq(candidate_names,
                         LAMBDA c : calculate_name_similarity(template_names[1].s, c)),
                  LAMBDA similarity :
             \* the first candidate of strictly greatest similarity above 0
             Bind(CHOOSE i \in 1..Len(candidate_names) :
                      /\ \A j \in 1..Len(candidate_names) :
                             ~FracGt(similarity[j], similarity[i])
                      /\ \A j \in 1..(i - 1) : FracGt(similarity[i], similarity[j]),
                  LAMBDA best :
                 IF /\ use_fuzzy_matching
                    /\ similarity[best].num > 0
                    /\ ~FracGt(similarity_threshold, similarity[best])
                 THEN Str(candidate_names[best])
                 ELSE template_names[1]))))

\* is_empty of fill_missing_parameters and is_blank of the blank filler
IsBlankValue(v) ==
    \/ IsNa(v)
    \/ (v.k = "str" /\ Strip(v.s) = <<>>)
    \/ (v.k = "str" /\ Strip(v.s) = <<"-">>)

\* get_reference_value(station_id, parameter)
get_reference_value(tm, station_id, parameter) ==
    LET station_data == get_station_data(tm, station_id)
        column == ColumnValues(station_data, parameter)
        nonnull == FilterSeq(column, LAMBDA v : ~IsNa(v))
        values == UniqueValues(nonnull)
        kept == FilterSeq(values, LAMBDA v : Strip(PyStr(v)) # <<>> /\ PyStr(v) # <<"-">>)
    IN  IF station_data = <<>> \/ parameter \notin tm.cols THEN None
        ELSE IF values = <<>> THEN None
        ELSE IF kept = <<>> THEN None
        \* value_counts().index[0]: the most frequent non-null value of the column
        ELSE IF Len(kept) > 1 THEN MostCommon(nonnull)
        ELSE kept[1]

\* is_empty of fill_missing_parameters: note that '-' is compared unstripped
IsEmptyParameter(v) ==
    \/ IsNa(v)
    \/ Strip(PyStr(v)) = <<>>
    \/ PyStr(v) = <<"-">>

FillableParams == <<"structure_owner", "structure_type", "tx_type">>

\* the template value replaces the resolved one wherever the template has one
fill_from_template(tm, station_id, current_values) ==
    LET station_data == get_station_data(tm, station_id)
        filled == {FillableParams[i] : i \in {j \in 1..Len(FillableParams) :
                       Truthy(get_reference_value(tm, station_id, FillableParams[j]))}}
    IN  IF station_data = <<>> THEN current_values
        ELSE [current_values EXCEPT
                !.keys = @ \cup filled,
                !.val = [c \in DOMAIN @ |->
                            IF c \in filled THEN get_reference_value(tm, station_id, c)
                            ELSE @[c]]]

\* fill_missing_parameters(station_id, current_values); current_values is a
\* resolved record (see process_anomalous_station), whose keys are its
\* field keys
fill_missing_parameters(tm, station_id, current_values) ==
    LET station_data == get_station_data(tm, station_id)
        Current(param) == IF param \in current_values.keys
                          THEN current_values.val[param] ELSE None
        Fills(param) == /\ IsEmptyParameter(Current(param))
                        /\ Truthy(get_reference_value(tm, station_id, param))
        filled == {FillableParams[i] : i \in {j \in 1..Len(FillableParams) :
                                                  Fills(FillableParams[j])}}
    IN  IF station_data = <<>> THEN current_values
        ELSE [current_values EXCEPT
                !.keys = @ \cup filled,
                !.val = [c \in DOMAIN @ |->
                            IF c \in filled THEN get_reference_value(tm, station_id, c)
                            ELSE @[c]]]

(***************************************************************************)
(* RFDataCorrectionEngine                                                  *)
(***************************************************************************)
\* config['processing']['require_manual_review_threshold'] = 0.25
require_manual_review_threshold == [num |-> 1, den |-> 4]

\* the site-level attributes, in the key order of correct_values
SiteParams == <<"name", "latitude", "longitude", "structure_height",
                "structure_owner", "structure_type">>

\* select_best_name(name_list, station_id)
\* the longest name whatever the template holds
select_best_name_untemplated(tm, name_list, station_id) ==
    IF name_list = <<>> THEN None
    ELSE Bind(MapSeq(FilterSeq(name_list, LAMBDA n : Truthy(n) /\ Strip(PyStr(n)) # <<>>),
                     LAMBDA n : Strip(PyStr(n))),
              LAMBDA valid_names :
             IF valid_names = <<>> THEN None
             ELSE Str(select_best_name_default(valid_names)))

select_best_name(tm, name_list, station_id) ==
    IF name_list = <<>> THEN None
    ELSE Bind(MapSeq(FilterSeq(name_list, LAMBDA n : Truthy(n) /\ Strip(PyStr(n)) # <<>>),
                     LAMBDA n : Strip(PyStr(n))),
              LAMBDA valid_names :
             IF valid_names = <<>> THEN None
             ELSE IF tm.active /\ Truthy(station_id)
             THEN Bind(get_reference_name(tm, station_id, valid_names), LAMBDA template_name :
                      IF Truthy(template_name) THEN template_name
                      ELSE Str(select_best_name_default(valid_names)))
             ELSE Str(select_best_name_default(valid_names)))

\* search_sector_info_all_sheets(station_id, None, technology): the rows of
\* the station, those of the sheet named as the technology first.
\* technology is the anomalous row's cell, None when it has no such column.
TechnologyMatches(sheet_name, technology) ==
    Truthy(technology) /\ technology.k = "str" /\ Lower(sheet_name) = Lower(technology.s)

RECURSIVE StationRowsOfSheets(_, _, _, _)
StationRowsOfSheets(sheets, station_id, technology, matching) ==
    IF sheets = <<>> THEN <<>>
    ELSE (IF TechnologyMatches(Head(sheets).name, technology) = matching
          THEN SelectRows(Head(sheets).rows, StationRows(Head(sheets).rows, station_id))
          ELSE <<>>)
         \o StationRowsOfSheets(Tail(sheets), station_id, technology, matching)

search_sector_info_all_sheets(sheets, station_id, technology) ==
    StationRowsOfSheets(sheets, station_id, technology, TRUE)
        \o StationRowsOfSheets(sheets, station_id, technology, FALSE)

\* technology.lower() on a blank cell (a float NaN) or on a number raises
\* AttributeError; it is evaluated for the first sheet that has the station
SearchRaises(sheets, station_id, technology) ==
    /\ Truthy(technology) /\ technology.k # "str"
    /\ \E i \in 1..Len(sheets) : StationRows(sheets[i].rows, station_id) # {}

\* a completion that leaves the blank fields blank
complete_nothing(sheets, station_id, current_data, technology) == current_data

\* complete_blank_fields(station_id, current_data, technology)
complete_blank_fields(sheets, station_id, current_data, technology) ==
    LET sector_info == search_sector_info_all_sheets(sheets, station_id, technology)
        IsEmpty(v) == IsNa(v) \/ v = Str(<<>>)
        Found(field) == {i \in 1..Len(sector_info) :
                            ~IsNa(sector_info[i][field]) /\ sector_info[i][field] # Str(<<>>)}
        Completed(field) ==
            IF IsEmpty(current_data.val[field]) /\ Found(field) # {}
            THEN sector_info[CHOOSE i \in Found(field) : \A j \in Found(field) : i <= j][field]
            ELSE current_data.val[field]
    IN  IF sector_info = <<>> THEN current_data
        ELSE [current_data EXCEPT
                !.val = [c \in DOMAIN @ |->
                            IF c \in Range(SiteParams) THEN Completed(c) ELSE @[c]]]

\* the part of a sheet or of the consolidated table that concerns a station
StationPart(table, station_id) ==
    [cols |-> table.cols,
     rows |-> SelectRows(table.rows, StationRows(table.rows, station_id))]

\* the extended-cell detection of process_anomalous_station: the station's
\* rows of all the sheets that have some, concatenated.  detector = FALSE
\* stands for self.extended_detector being None (the legacy method runs,
\* and its result is only logged)
DetectedExtendedCells(sheets, detector, station_id) ==
    LET parts == FilterSeq(MapSeq(sheets, LAMBDA sh : StationPart(sh, station_id)),
                           LAMBDA part : part.rows # <<>>)
    IN  IF ~detector \/ parts = <<>> THEN <<>>
        ELSE detect_extended_cells_in_station(
                 [cols |-> ConcatCols(parts), rows |-> ConcatRows(parts)])

\* only the first sheet is marked
MarkFirstSheet(sheets, extended_cells) ==
    IF extended_cells = <<>> \/ sheets = <<>> THEN sheets
    ELSE <<mark_extended_cells(Head(sheets), extended_cells)>> \o Tail(sheets)

\* for every sheet: all_sheets[sheet_name] = mark_extended_cells(df_sheet, extended_cells)
MarkAllSheets(sheets, extended_cells) ==
    IF extended_cells = <<>> THEN sheets
    ELSE MapSeq(sheets, LAMBDA sh : mark_extended_cells(sh, extended_cells))

\* the candidate lists of an anomalous row
Candidates(station_data) == [c \in Range(SiteParams) |-> parse_list_values(station_data[c])]

DiscrepancyScores(lists) ==
    [c \in Range(SiteParams) |-> calculate_discrepancy_score(lists[c])]

\* the sum of the six scores; np.mean is this sum over 6
RECURSIVE SumScores(_, _)
SumScores(scores, params) ==
    IF params = <<>> THEN [num |-> 0, den |-> 1]
    ELSE FracAdd(scores[Head(params)], SumScores(scores, Tail(params)))

avg_discrepancy(discrepancy_scores) ==
    Bind(SumScores(discrepancy_scores, SiteParams), LAMBDA total :
        [num |-> total.num, den |-> total.den * Len(SiteParams)])

RequiresReviewAtThreshold(avg, extended_cells) ==
    ~FracGt(require_manual_review_threshold, avg) /\ extended_cells = <<>>

\* avg_discrepancy > threshold and not extended_cells
RequiresReview(avg, extended_cells) ==
    FracGt(avg, require_manual_review_threshold) /\ extended_cells = <<>>

\* the dict correct_values as process_anomalous_station first builds it
SelectedValues(tm, lists, station_id, extended_cells, discrepancy_score) ==
    [station_id |-> station_id,
     keys |-> Range(SiteParams),
     val |-> [c \in Columns |->
                CASE c = "name" -> select_best_name(tm, lists["name"], station_id)
                  [] c = "latitude" ->
                        IF extended_cells = <<>> THEN select_best_latitude(lists["latitude"])
                        ELSE None
                  [] c = "longitude" ->
                        IF extended_cells = <<>> THEN select_best_longitude(lists["longitude"])
                        ELSE None
                  [] c = "structure_height" ->
                        select_best_structure_height(lists["structure_height"])
                  [] c = "structure_owner" ->
                        select_best_structure_owner(lists["structure_owner"])
                  [] c = "structure_type" ->
                        select_best_structure_type(lists["structure_type"])
                  [] OTHER -> None],
     discrepancy_score |-> discrepancy_score,
     has_extended_cells |-> Len(extended_cells) > 0]

\* complete_blank_fields, then fill_missing_parameters when a template
\* manager is there
CompletedValues(sheets, tm, station_id, correct_values, technology) ==
    Bind(complete_blank_fields(sheets, station_id, correct_values, technology),
         LAMBDA completed :
             IF tm.active THEN fill_missing_parameters(tm, station_id, completed)
             ELSE completed)

\* process_anomalous_station(station_data) from the state (sheets, tm,
\* detector): the sheets after marking, the detected cells, whether the call
\* raised, the parsed lists and their scores, the resolved record
\* correct_values and whether the site was queued for manual review
process_anomalous_station(sheets, tm, detector, station_data) ==
    Bind(DetectedExtendedCells(sheets, detector, station_data["station_id"]),
         LAMBDA extended_cells :
    Bind(MarkAllSheets(sheets, extended_cells), LAMBDA marked :
    Bind(Candidates(station_data), LAMBDA lists :
    Bind(DiscrepancyScores(lists), LAMBDA discrepancy_scores :
    Bind(avg_discrepancy(discrepancy_scores), LAMBDA avg :
    Bind(SelectedValues(tm, lists, station_data["station_id"], extended_cells, avg),
         LAMBDA correct_values :
    Bind(\/ correct_values.val["structure_owner"] = Raise
         \/ SearchRaises(marked, station_data["station_id"], station_data["technology"]),
         LAMBDA raised :
        [raised |-> raised,
         sheets |-> marked,
         extended_cells |-> extended_cells,
         original_values |-> lists,
         discrepancy_details |-> discrepancy_scores,
         correct_values |->
             IF raised THEN correct_values
             ELSE CompletedValues(marked, tm, station_data["station_id"], correct_values,
                                  station_data["technology"]),
         review |-> ~raised /\ RequiresReview(avg, extended_cells)])))))))

\* the ManualReviewEntry appended for a queued site
ManualReviewEntry(result) ==
    [station_id |-> result.correct_values.station_id,
     discrepancy_score |-> result.correct_values.discrepancy_score,
     discrepancy_details |-> result.discrepancy_details,
     original_values |-> result.original_values,
     proposed_values |-> result.correct_values,
     extended_cells |-> result.extended_cells]

\* the data keys of correct_values that apply_corrections iterates, in dict
\* order: the six site attributes, then tx_type when the template added it
\* (station_id, discrepancy_score and has_extended_cells are skipped)
ParamOrder(correct_values) ==
    SiteParams \o (IF "tx_type" \in correct_values.keys THEN <<"tx_type">> ELSE <<>>)

SkipsNoParam(correct_values, param) == FALSE

\* skip_coords and param in ['latitude', 'longitude']
SkipsParam(correct_values, param) ==
    correct_values.has_extended_cells /\ param \in {"latitude", "longitude"}

\* a column holds Python objects (dtype object) when some cell is text or
\* None, and floats otherwise
IsObjectColumn(rows, param) == \E i \in 1..Len(rows) : rows[i][param].k \in {"str", "none"}

\* what df.loc[mask, param] = new_value leaves in the cells: None becomes
\* NaN in a float column and stays None in an object column
StoredValue(rows, param, new_value) ==
    IF new_value = None /\ ~IsObjectColumn(rows, param) THEN NaN ELSE new_value

\* the distinct values of the column, of the station or not
OldValuesOfTable(rows, station_id, param) ==
    UniqueValues(MapSeq(rows, LAMBDA r : r[param]))

\* df.loc[mask, param].unique().tolist()
OldValues(rows, station_id, param) ==
    UniqueValues(MapSeq(SelectRows(rows, StationRows(rows, station_id)), LAMBDA r : r[param]))

\* only the first of the old values is compared
NeedsCorrectionOfFirst(old_values, new_value) ==
    Len(old_values) > 0 /\ PyNe(old_values[1], new_value)

NeedsCorrectionWhenMixed(old_values, new_value) == Len(old_values) > 1

\* len(old_values) > 1 or (len(old_values) > 0 and old_values[0] != new_value)
NeedsCorrection(old_values, new_value) ==
    Len(old_values) > 1 \/ (Len(old_values) > 0 /\ PyNe(old_values[1], new_value))

\* the parameters apply_corrections overwrites in one sheet, in order
CorrectedParams(sheet, station_id, correct_values) ==
    FilterSeq(ParamOrder(correct_values),
              LAMBDA param :
                  /\ ~SkipsParam(correct_values, param)
                  /\ param \in sheet.cols
                  /\ NeedsCorrection(OldValues(sheet.rows, station_id, param),
                                     correct_values.val[param]))

\* the corrected parameters are written into every row of the sheet
CorrectWholeSheet(sheet, station_id, correct_values) ==
    LET params == Range(CorrectedParams(sheet, station_id, correct_values))
    IN  [sheet EXCEPT !.rows =
            [i \in 1..Len(sheet.rows) |->
                [c \in Columns |->
                    IF c \in params
                    THEN StoredValue(sheet.rows, c, correct_values.val[c])
                    ELSE sheet.rows[i][c]]]]

\* df_sheet.loc[mask, param] = new_value for the parameters that need it
CorrectSheet(sheet, station_id, correct_values) ==
    LET params == Range(CorrectedParams(sheet, station_id, correct_values))
    IN  [sheet EXCEPT !.rows =
            [i \in 1..Len(sheet.rows) |->
                IF sheet.rows[i]["station_id"] = station_id
                THEN [c \in Columns |->
                        IF c \in params
                        THEN StoredValue(sheet.rows, c, correct_values.val[c])
                        ELSE sheet.rows[i][c]]
                ELSE sheet.rows[i]]]

CorrectionRecord(sheet, station_id, correct_values, tm, param) ==
    [station_id |-> station_id,
     sheet_name |-> sheet.name,
     parameter |-> param,
     old_values |-> OldValues(sheet.rows, station_id, param),
     new_value |-> correct_values.val[param],
     rows_affected |-> Cardinality(StationRows(sheet.rows, station_id)),
     source |-> IF tm.active /\ param \in {"structure_owner", "structure_type",
                                           "tx_type", "name"}
                THEN "template" ELSE "algorithm"]

RECURSIVE CorrectionsMade(_, _, _, _)
CorrectionsMade(sheets, station_id, correct_values, tm) ==
    IF sheets = <<>> THEN <<>>
    ELSE MapSeq(CorrectedParams(Head(sheets), station_id, correct_values),
                LAMBDA param : CorrectionRecord(Head(sheets), station_id,
                                                correct_values, tm, param))
         \o CorrectionsMade(Tail(sheets), station_id, correct_values, tm)

\* the update of the consolidated table df_physical: every key that is not
\* skipped and is a column is written, whatever the rows held
CorrectConsolidated(physical, station_id, correct_values) ==
    LET params == {c \in Range(ParamOrder(correct_values)) :
                       ~SkipsParam(correct_values, c) /\ c \in physical.cols}
    IN  [physical EXCEPT !.rows =
            [i \in 1..Len(physical.rows) |->
                IF physical.rows[i]["station_id"] = station_id
                THEN [c \in Columns |->
                        IF c \in params
                        THEN StoredValue(physical.rows, c, correct_values.val[c])
                        ELSE physical.rows[i][c]]
                ELSE physical.rows[i]]]

\* apply_corrections(station_id, correct_values)
apply_corrections(sheets, physical, tm, station_id, correct_values) ==
    [sheets |-> MapSeq(sheets, LAMBDA sh : CorrectSheet(sh, station_id, correct_values)),
     physical |-> CorrectConsolidated(physical, station_id, correct_values),
     corrections_made |-> CorrectionsMade(sheets, station_id, correct_values, tm)]

(***************************************************************************)
(* apply_corrections where the write of an incompatible value is refused.  *)
(* df.loc[mask, param] = new_value with a text for a float64 column is the *)
(* assignment pandas announces as an error (FutureWarning since 2.1) and   *)
(* raises TypeError for where the check is enforced; the repository pins   *)
(* no version.  The exception leaves apply_corrections at the write, with  *)
(* the earlier writes done and the local list corrections_made lost.       *)
(***************************************************************************)
\* the column is float64 (no cell of it is a text or None) and the value
\* is a text
RefusesWrite(rows, param, new_value) ==
    new_value.k = "str" /\ ~IsObjectColumn(rows, param)

\* df_sheet.loc[mask, param] = new_value for the given parameters
WriteParams(table, station_id, correct_values, params) ==
    [table EXCEPT !.rows =
        [i \in 1..Len(table.rows) |->
            IF table.rows[i]["station_id"] = station_id
            THEN [c \in Columns |->
                    IF c \in params
                    THEN StoredValue(table.rows, c, correct_values.val[c])
                    ELSE table.rows[i][c]]
            ELSE table.rows[i]]]

\* the writes into the sheets in the order apply_corrections makes them
RECURSIVE SheetWrites(_, _, _, _)
SheetWrites(sheets, k, station_id, correct_values) ==
    IF k > Len(sheets) THEN <<>>
    ELSE MapSeq(CorrectedParams(sheets[k], station_id, correct_values),
                LAMBDA param : [sheet |-> k, param |-> param])
         \o SheetWrites(sheets, k + 1, station_id, correct_values)

\* the writes into df_physical, in key order, made when the station has rows
ConsolidatedWrites(physical, station_id, correct_values) ==
    IF StationRows(physical.rows, station_id) = {} THEN <<>>
    ELSE FilterSeq(ParamOrder(correct_values),
                   LAMBDA c : ~SkipsParam(correct_values, c) /\ c \in physical.cols)

\* the first write of the sequence that is refused, 0 when none is
FirstRefusedSheetWrite(sheets, writes, correct_values) ==
    LET refused == {n \in 1..Len(writes) :
                       RefusesWrite(sheets[writes[n].sheet].rows, writes[n].param,
                                    correct_values.val[writes[n].param])}
    IN  IF refused = {} THEN 0 ELSE CHOOSE n \in refused : \A m \in refused : n <= m

FirstRefusedConsolidatedWrite(physical, writes, correct_values) ==
    LET refused == {n \in 1..Len(writes) :
                       RefusesWrite(physical.rows, writes[n], correct_values.val[writes[n]])}
    IN  IF refused = {} THEN 0 ELSE CHOOSE n \in refused : \A m \in refused : n <= m

\* apply_corrections(station_id, correct_values) under the enforced check:
\* raised stands for the TypeError, sheets and physical are the tables as
\* the call leaves them
strict_apply_corrections(sheets, physical, tm, station_id, correct_values) ==
    Bind(SheetWrites(sheets, 1, station_id, correct_values), LAMBDA writes :
    Bind(FirstRefusedSheetWrite(sheets, writes, correct_values), LAMBDA n :
    Bind(ConsolidatedWrites(physical, station_id, correct_values), LAMBDA mirrored :
    Bind(FirstRefusedConsolidatedWrite(physical, mirrored, correct_values), LAMBDA m :
        IF n > 0
        THEN [raised |-> TRUE,
              sheets |-> [k \in 1..Len(sheets) |->
                            WriteParams(sheets[k], station_id, correct_values,
                                        {writes[j].param : j \in {i \in 1..(n - 1) :
                                                                    writes[i].sheet = k}})],
              physical |-> physical,
              corrections_made |-> <<>>]
        ELSE IF m > 0
        THEN [raised |-> TRUE,
              sheets |-> apply_corrections(sheets, physical, tm, station_id,
                                           correct_values).sheets,
              physical |-> WriteParams(physical, station_id, correct_values,
                                       {mirrored[j] : j \in 1..(m - 1)}),
              corrections_made |-> <<>>]
        ELSE [raised |-> FALSE] @@ apply_corrections(sheets, physical, tm, station_id,
                                                     correct_values)))))

(***************************************************************************)
(* The inputs of a run: a workbook of two sheets with the rows of two      *)
(* stations, and the rows of the anomalous-stations sheet.                 *)
(***************************************************************************)
\* the number of rows of the anomalous-stations sheet
MaxAnom == 2

Quoted(text) == <<"'">> \o text \o <<"'">>

\* the text of a Python list of quoted items: ['a', 'b']
RECURSIVE JoinItems(_)
JoinItems(items) ==
    IF items = <<>> THEN <<>>
    ELSE IF Len(items) = 1 THEN Quoted(items[1])
    ELSE Quoted(items[1]) \o <<",", " ">> \o JoinItems(Tail(items))

ListText(items) == Str(<<"[">> \o JoinItems(items) \o <<"]">>)

SidAB == Str(<<"A", "B">>)
SidCD == Str(<<"C", "D">>)
SidZZ == Str(<<"Z", "Z">>)

TxtAcme == <<"A", "C", "M", "E">>
TxtAcmeLower == <<"a", "c", "m", "e">>
TxtTelco == <<"T", "E", "L", "C", "O">>
TxtName == <<"L", "a", " ", "P", "a", "z">>
TxtNameLong == <<"L", "a", " ", "P", "a", "z", " ", "S", "u", "r">>
TxtNameOther == <<"O", "r", "u", "r", "o">>
TxtFibre == <<"F", "O">>
TxtRadio == <<"M", "W">>
TxtMacro == <<"M", "a", "c", "r", "o", " ", "C", "e", "l", "l">>
TxtUnknownType == <<"S", "I", "L", "O">>
TxtLte == <<"l", "t", "e">>

\* coordinates: the main location and places around it
LatMain == (3 * One) \div 2
LonMain == 2 * One

MkRow(sid, cell, name, lat, lon, height, owner, type, tx, ctype) ==
    [c \in Columns |->
        CASE c = "station_id" -> sid
          [] c = "station_cell_id" -> cell
          [] c = "name" -> name
          [] c = "latitude" -> lat
          [] c = "longitude" -> lon
          [] c = "structure_height" -> height
          [] c = "structure_owner" -> owner
          [] c = "structure_type" -> type
          [] c = "tx_type" -> tx
          [] c = "cell_type" -> ctype]

\* a sector of station AB with the default, consistent attributes
DefaultRow(sid, cell) ==
    MkRow(sid, Str(cell), Str(TxtName), Num(LatMain), Num(LonMain), Num(30 * One),
          Str(TxtAcme), Str(TypeTower), Str(TxtFibre), Str(TxtMacro))

\* a row of the anomalous-stations sheet
AnomalousColumns == {"station_id", "name", "latitude", "longitude", "structure_height",
                     "structure_owner", "structure_type", "technology"}

MkAnomalous(sid, name, lat, lon, height, owner, type, technology) ==
    [c \in AnomalousColumns |->
        CASE c = "station_id" -> sid
          [] c = "name" -> name
          [] c = "latitude" -> lat
          [] c = "longitude" -> lon
          [] c = "structure_height" -> height
          [] c = "structure_owner" -> owner
          [] c = "structure_type" -> type
          [] c = "technology" -> technology]

\* the anomalous row that lists, for every attribute, the default value only
DefaultAnomalous(sid) ==
    MkAnomalous(sid, ListText(<<TxtName>>), ListText(<<<<"1", ".", "5">>>>),
                ListText(<<<<"2", ".", "0">>>>), ListText(<<<<"3", "0", ".", "0">>>>),
                ListText(<<TxtAcme>>), ListText(<<TypeTower>>), None)

\* the text of a Python list of unquoted numbers: [30.0, 45.0]
RECURSIVE JoinBare(_)
JoinBare(items) ==
    IF items = <<>> THEN <<>>
    ELSE IF Len(items) = 1 THEN items[1]
    ELSE items[1] \o <<",", " ">> \o JoinBare(Tail(items))

BareList(nums) == Str(<<"[">> \o JoinBare(MapSeq(nums, LAMBDA x : PyStr(Num(x)))) \o <<"]">>)

SheetLte == <<"L", "T", "E">>
SheetUmts == <<"U", "M", "T", "S">>

\* the columns a sheet may lack: only the concatenation of the sheets is
\* checked for the required ones
NarrowColumns == Columns \ {"structure_type", "tx_type", "cell_type"}

Sheet(name, cols, rows) ==
    [name |-> name, cols |-> cols,
     rows |-> MapSeq(rows, LAMBDA r : [c \in Columns |-> IF c \in cols THEN r[c] ELSE NaN])]

\* the workbook: sheet LTE with two sectors of AB and one of CD, sheet UMTS
\* with one sector of AB
Workbook(r1, r2, r3, cd, narrow) ==
    <<Sheet(SheetLte, Columns, <<r1, r2, cd>>),
      Sheet(SheetUmts, IF narrow THEN NarrowColumns ELSE Columns, <<r3>>)>>

CellAB1 == <<"A", "B", "1">>
CellAB2 == <<"A", "B", "2">>
CellAB3 == <<"A", "B", "3">>
CellABR1 == <<"A", "B", "R", "1">>
CellLowerR2 == <<"a", "b", "r", "2">>
CellABX2 == <<"A", "B", "X", "2">>
CellABR == <<"A", "B", "R">>
CellCD1 == <<"C", "D", "1">>

With(row, attr, v) == [row EXCEPT ![attr] = v]

\* --- one attribute of AB varies over its three sectors ---------------------
TxtNamePadded == <<" ">> \o TxtName \o <<" ">>
TxtDash == <<"-">>
TxtBlank == <<" ">>

StoredValues(attr) ==
    CASE attr = "name" -> {Str(TxtName), Str(TxtNameLong), Str(TxtNamePadded), NaN}
      [] attr = "structure_height" -> {Num(30 * One), Num(45 * One), Num(150 * One), NaN}
      [] attr = "structure_owner" -> {Str(TxtAcme), Str(TxtAcmeLower), Str(TxtTelco), NaN}
      [] attr = "structure_type" -> {Str(TypeTower), Str(TypeMast), Str(TxtUnknownType),
                                     Str(TxtDash)}

RawCells(attr) ==
    CASE attr = "name" ->
            {ListText(<<TxtName>>), ListText(<<TxtName, TxtNameLong>>),
             ListText(<<TxtName, TxtNameOther, TxtNameLong>>), ListText(<<TxtNamePadded>>),
             ListText(<<TxtBlank>>), NaN}
      [] attr = "structure_height" ->
            {BareList(<<30 * One>>), BareList(<<30 * One, 45 * One>>),
             BareList(<<120 * One, 150 * One>>), BareList(<<150 * One>>),
             ListText(<<<<"3", "0">>, <<"a", "b", "c">>>>), Str(<<"[", "]">>), Num(45 * One)}
      [] attr = "structure_owner" ->
            {ListText(<<TxtAcme>>), ListText(<<TxtAcmeLower>>),
             ListText(<<TxtAcme, TxtTelco, TxtAcmeLower>>), ListText(<<TxtTelco, TxtAcme>>),
             NaN, Num(5 * One)}
      [] attr = "structure_type" ->
            {ListText(<<TypeTower>>), ListText(<<TypeMast, TypeTower>>),
             ListText(<<TxtUnknownType, TypePole>>), ListText(<<TxtDash>>),
             ListText(<<TxtUnknownType>>), ListText(<<TxtBlank, TxtDash>>)}

\* candidate lists with two values for latitude, longitude and one more
\* attribute: each adds 1/2 to the sum of the discrepancy scores; at noise 4
\* the latitude has three values and adds 2/3
NoiseLatitude == BareList(<<LatMain, LatMain + 20>>)
NoiseLatitude3 == BareList(<<LatMain, LatMain + 20, LatMain + 40>>)
NoiseLongitude == BareList(<<LonMain, LonMain + 20>>)

Noisy(row, noise, attr) ==
    LET third == IF attr = "name" THEN "structure_type" ELSE "name"
        thirdCell == IF attr = "name" THEN ListText(<<TypeTower, TypeMast>>)
                     ELSE ListText(<<TxtName, TxtNameOther>>)
        a == IF noise >= 4 THEN With(row, "latitude", NoiseLatitude3)
             ELSE IF noise >= 1 THEN With(row, "latitude", NoiseLatitude) ELSE row
        b == IF noise >= 2 THEN With(a, "longitude", NoiseLongitude) ELSE a
    IN  IF noise >= 3 THEN With(b, third, thirdCell) ELSE b

FocusAttributes == {"name", "structure_height", "structure_owner", "structure_type"}

\* the values of the attribute in the UMTS sector
StoredUmts(attr) ==
    CASE attr = "name" -> {Str(TxtName), NaN}
      [] attr = "structure_height" -> {Num(30 * One), Num(45 * One)}
      [] attr = "structure_owner" -> {Str(TxtAcme), Str(TxtAcmeLower)}
      [] attr = "structure_type" -> {Str(TypeTower), Str(TypeMast)}

NoTemplate == [active |-> FALSE, cols |-> {}, rows |-> <<>>]

\* how many further attributes are discrepant, and whether sheet UMTS lacks
\* the optional columns
NoiseAndNarrow == {<<0, FALSE>>, <<2, FALSE>>, <<3, FALSE>>, <<4, FALSE>>, <<0, TRUE>>}

AttributeWorkbook(attr, v1, v2, v3, narrow) ==
    Workbook(With(DefaultRow(SidAB, CellAB1), attr, v1),
             With(DefaultRow(SidAB, CellAB2), attr, v2),
             With(DefaultRow(SidAB, CellAB3), attr, v3),
             DefaultRow(SidCD, CellCD1), narrow)

AttributeBatch(attr, raw, noise) == <<Noisy(With(DefaultAnomalous(SidAB), attr, raw), noise, attr)>>

\* --- the places and the cell ids of the sectors of AB vary ----------------
Place(dlat, dlon) == <<Num(LatMain + dlat), Num(LonMain + dlon)>>

\* distances from the main place, in units of the threshold's last digit
ThresholdStep == distance_threshold
DiagLat == (3 * distance_threshold) \div 5
DiagLon == (4 * distance_threshold) \div 5

Places == {Place(0, 0), Place(ThresholdStep \div 2, 0), Place(ThresholdStep, 0),
           Place(ThresholdStep + 1, 0), Place(DiagLat, DiagLon), Place(DiagLat + 1, DiagLon),
           <<NaN, Num(LonMain)>>}

At(row, place) == With(With(row, "latitude", place[1]), "longitude", place[2])

RawLatitudes == {BareList(<<LatMain>>), BareList(<<LatMain, LatMain + 20>>),
                 BareList(<<9 * One>>), NaN}

SecondCells == {CellABR1, CellLowerR2, CellABX2, CellABR}

ThirdSectors == {<<CellAB3, Place(0, 0)>>, <<CellAB3, Place(ThresholdStep + 1, 0)>>,
                 <<CellABR1, Place(ThresholdStep + 1, 0)>>}

CoordinateWorkbook(cell2, place2, third) ==
    Workbook(DefaultRow(SidAB, CellAB1),
             At(DefaultRow(SidAB, cell2), place2),
             At(DefaultRow(SidAB, third[1]), third[2]),
             At(DefaultRow(SidCD, CellCD1), Place(ThresholdStep + 1, 0)), FALSE)

\* --- stored coordinates with more decimals than the engine keeps ----------
PreciseOffsets == {0, 1, 5, 15, 16}

PreciseWorkbook(d) ==
    Workbook(At(DefaultRow(SidAB, CellAB1), Place(d, 0)),
             At(DefaultRow(SidAB, CellAB2), Place(d, 0)),
             At(DefaultRow(SidAB, CellAB3), Place(d, 0)),
             DefaultRow(SidCD, CellCD1), FALSE)

\* --- all the sectors of AB hold the same value, which the anomalous row lists
TxtTowerPadded == TypeTower \o <<" ">>
TxtTelcoPadded == <<" ">> \o TxtTelco

StoredVariants ==
    {<<"name", Str(TxtNamePadded)>>, <<"name", Str(TxtNameLong)>>,
     <<"structure_type", Str(TxtTowerPadded)>>, <<"structure_type", Str(TxtUnknownType)>>,
     <<"structure_owner", Str(TxtAcmeLower)>>, <<"structure_owner", Str(TxtTelcoPadded)>>,
     <<"structure_owner", Str(TxtTelco)>>,
     <<"structure_height", Num(150 * One)>>, <<"structure_height", Num(45 * One)>>,
     <<"latitude", Num(9 * One)>>, <<"longitude", Num(LonMain + 1)>>,
     <<"longitude", Num(LonMain + 10)>>}

UniformWorkbook(attr, v) ==
    Workbook(With(DefaultRow(SidAB, CellAB1), attr, v),
             With(DefaultRow(SidAB, CellAB2), attr, v),
             With(DefaultRow(SidAB, CellAB3), attr, v),
             DefaultRow(SidCD, CellCD1), FALSE)

\* --- batches of anomalous rows ---------------------------------------------
BatchRows ==
    {DefaultAnomalous(SidAB),
     With(DefaultAnomalous(SidAB), "structure_owner", ListText(<<TxtTelco, TxtAcme, TxtTelco>>)),
     With(DefaultAnomalous(SidAB), "structure_owner", Num(5 * One)),
     With(DefaultAnomalous(SidAB), "technology", NaN),
     With(DefaultAnomalous(SidAB), "technology", Str(<<"u", "m", "t", "s">>)),
     With(DefaultAnomalous(SidCD), "structure_height", BareList(<<30 * One, 60 * One>>)),
     With(DefaultAnomalous(SidCD), "technology", Num(4 * One)),
     DefaultAnomalous(SidCD),
     With(DefaultAnomalous(SidZZ), "technology", NaN)}

RECURSIVE Batches(_)
Batches(n) ==
    IF n = 0 THEN {<<>>}
    ELSE LET shorter == Batches(n - 1)
         IN  shorter \cup {Append(b, r) : b \in {c \in shorter : Len(c) = n - 1},
                                          r \in BatchRows}

BatchWorkbooks ==
    {Workbook(DefaultRow(SidAB, CellAB1), DefaultRow(SidAB, CellAB2),
              DefaultRow(SidAB, CellAB3), DefaultRow(SidCD, CellCD1), FALSE),
     Workbook(DefaultRow(SidAB, CellAB1),
              With(DefaultRow(SidAB, CellAB2), "structure_owner", Str(TxtAcmeLower)),
              With(DefaultRow(SidAB, CellAB3), "structure_height", Num(45 * One)),
              With(DefaultRow(SidCD, CellCD1), "structure_height", Num(60 * One)), FALSE),
     Workbook(DefaultRow(SidAB, CellAB1),
              At(DefaultRow(SidAB, CellABR1), Place(ThresholdStep + 1, 0)),
              With(DefaultRow(SidAB, CellAB3), "structure_height", NaN),
              DefaultRow(SidCD, CellCD1), FALSE),
     Workbook(DefaultRow(SidAB, CellAB1), DefaultRow(SidAB, CellAB2),
              At(DefaultRow(SidAB, CellABR1), Place(ThresholdStep + 1, 0)),
              With(DefaultRow(SidCD, CellCD1), "structure_height", Num(60 * One)), TRUE),
     \* a row filed under CD carries the identifier of AB's remote sector
     Workbook(DefaultRow(SidAB, CellAB1),
              With(DefaultRow(SidAB, CellAB2), "structure_owner", Str(TxtAcmeLower)),
              At(DefaultRow(SidAB, CellABR1), Place(ThresholdStep + 1, 0)),
              DefaultRow(SidCD, CellABR1), FALSE)}


\* --- a template is available -----------------------------------------------
TemplateColumns == {"station_id", "name", "structure_owner", "structure_type", "tx_type"}

TemplateRow(sid, name, owner, type, tx) ==
    MkRow(sid, NaN, name, NaN, NaN, NaN, owner, type, tx, NaN)

Template(rows) == [active |-> TRUE, cols |-> TemplateColumns, rows |-> rows]

Templates ==
    {Template(<<TemplateRow(SidAB, t[1], Str(TxtTelco), Str(TypeMast), t[2])>> \o t[3]) :
        t \in {Str(TxtName), Str(TxtNameLong), Str(TxtNameOther), NaN}
                  \X {Str(TxtFibre), Str(TxtRadio), Str(TxtDash), NaN}
                  \X {<<>>, <<TemplateRow(SidAB, Str(TxtName), NaN, Str(TxtDash), Str(TxtRadio))>>,
                      <<TemplateRow(SidCD, Str(TxtNameOther), Str(TxtAcme), Str(TypePole),
                                    Str(TxtRadio))>>}}

TemplateRawRows ==
    {DefaultAnomalous(SidAB),
     With(DefaultAnomalous(SidAB), "name", ListText(<<TxtNameOther, TxtNameLong>>)),
     With(With(DefaultAnomalous(SidAB), "structure_owner", NaN),
          "structure_type", ListText(<<TxtDash>>)),
     With(DefaultAnomalous(SidAB), "name", NaN)}

TemplateWorkbook(tx) ==
    Workbook(DefaultRow(SidAB, CellAB1),
             With(DefaultRow(SidAB, CellAB2), "tx_type", tx),
             DefaultRow(SidAB, CellAB3),
             DefaultRow(SidCD, CellCD1), FALSE)

(***************************************************************************)
(* The state of one run of process_anomalous_file                          *)
(***************************************************************************)
VARIABLES
    all_sheets,               \* self.all_sheets
    df_physical,              \* self.df_physical, the consolidated table
    template_manager,         \* self.template_manager
    extended_detector,        \* self.extended_detector is not None
    df_anomalous,             \* the rows of the anomalous-stations sheet
    idx,                      \* the row process_anomalous_file is at
    pc,                       \* "process", "apply" or "done"
    correct_values,           \* the record process_anomalous_station returned
    all_corrections,          \* the local list of process_anomalous_file
    corrections_log,          \* self.corrections_log
    manual_review_required,   \* self.manual_review_required
    extended_cells_detected,  \* self.extended_cells_detected
    site_start,               \* history: the tables when the current site began, and
                              \* what process_anomalous_station did for it
    trace,                    \* history: one entry per anomalous row handled
    blank_filler,             \* the BlankFieldFiller and the file process_file is filling
    call,                     \* a call of a selector, the scorer or the detector
    returned,                 \* what the call returned
    main_frame                \* main: the step it is at, the local names bound, the
                              \* files written and how the process ended

vars == <<all_sheets, df_physical, template_manager, extended_detector, df_anomalous,
          idx, pc, correct_values, all_corrections, corrections_log,
          manual_review_required, extended_cells_detected, site_start, trace,
          blank_filler, call, returned, main_frame>>

engine_vars == <<all_sheets, df_physical, template_manager, extended_detector,
                 df_anomalous, idx, pc, correct_values, all_corrections, corrections_log,
                 manual_review_required, extended_cells_detected, site_start, trace>>

\* no blank filler was constructed, no call is under way
NoFiller == [constructed |-> FALSE]
NoCall == [fn |-> "none"]
NotReturned == [done |-> FALSE]
NoMain == [step |-> "none"]

NoValues == [station_id |-> None, keys |-> {}, val |-> [c \in Columns |-> None],
             discrepancy_score |-> [num |-> 0, den |-> 1], has_extended_cells |-> FALSE]

\* __init__: the consolidated table is the concatenation of the sheets
Consolidated(sheets) == [cols |-> ConcatCols(sheets), rows |-> ConcatRows(sheets)]

\* __init__: the required columns that the consolidated table lacks
required_columns == {"station_id", "name", "latitude", "longitude", "structure_height",
                     "structure_owner", "structure_type"}

missing_columns(sheets) == required_columns \ Consolidated(sheets).cols

\* __init__(physical_params_file, config): raised stands for ValueError
Construction(sheets) ==
    [raised |-> missing_columns(sheets) # {},
     all_sheets |-> sheets,
     df_physical |-> Consolidated(sheets)]

\* the state after __init__ for given input files
EngineInit(sheets, tm, detector, anomalous) ==
    /\ all_sheets = sheets
    /\ df_physical = Consolidated(sheets)
    /\ template_manager = tm
    /\ extended_detector = detector
    /\ df_anomalous = anomalous
    /\ idx = 1
    /\ pc = "process"
    /\ correct_values = NoValues
    /\ all_corrections = <<>>
    /\ corrections_log = <<>>
    /\ manual_review_required = <<>>
    /\ extended_cells_detected = <<>>
    /\ site_start = [sheets |-> sheets, physical |-> Consolidated(sheets),
                     extended_cells |-> <<>>, queued |-> FALSE]
    /\ trace = <<>>

InitWith(sheets, tm, detector, anomalous) ==
    /\ EngineInit(sheets, tm, detector, anomalous)
    /\ blank_filler = NoFiller
    /\ call = NoCall
    /\ returned = NotReturned
    /\ main_frame = NoMain

(***************************************************************************)
(* The loop of process_anomalous_file, one anomalous row at a time         *)
(***************************************************************************)
Station == df_anomalous[idx]["station_id"]

Processed == process_anomalous_station(all_sheets, template_manager, extended_detector,
                                       df_anomalous[idx])

ExtendedCellMarks(station_id, cells) ==
    MapSeq(cells, LAMBDA cell : [station_id |-> station_id, cell_id |-> cell,
                                 action |-> "marked_as_extended_cell"])

\* process_anomalous_station returns
ProcessStation ==
    /\ pc = "process"
    /\ idx <= Len(df_anomalous)
    /\ \E result \in {Processed} :
        /\ ~result.raised
        /\ all_sheets' = result.sheets
        /\ extended_cells_detected' =
               extended_cells_detected \o ExtendedCellMarks(Station, result.extended_cells)
        /\ manual_review_required' =
               IF result.review
               THEN Append(manual_review_required, ManualReviewEntry(result))
               ELSE manual_review_required
        /\ correct_values' = result.correct_values
        /\ site_start' = [sheets |-> all_sheets, physical |-> df_physical,
                          extended_cells |-> result.extended_cells,
                          queued |-> result.review]
    /\ pc' = "apply"
    /\ UNCHANGED <<df_physical, template_manager, extended_detector, df_anomalous, idx,
                   all_corrections, corrections_log, trace>>
    /\ UNCHANGED <<blank_filler, call, returned, main_frame>>

ProcessStationAborts ==
    /\ pc = "process"
    /\ idx <= Len(df_anomalous)
    /\ \E result \in {Processed} :
        /\ result.raised
        /\ all_sheets' = result.sheets
        /\ extended_cells_detected' =
               extended_cells_detected \o ExtendedCellMarks(Station, result.extended_cells)
    /\ pc' = "done"
    /\ UNCHANGED <<df_physical, template_manager, extended_detector, df_anomalous, idx,
                   correct_values, all_corrections, corrections_log,
                   manual_review_required, site_start, trace>>
    /\ UNCHANGED <<blank_filler, call, returned, main_frame>>

\* process_anomalous_station raises: the except clause logs and continues
\* with the next row; what the call did before it raised stays done
ProcessStationRaises ==
    /\ pc = "process"
    /\ idx <= Len(df_anomalous)
    /\ \E result \in {Processed} :
        /\ result.raised
        /\ all_sheets' = result.sheets
        /\ extended_cells_detected' =
               extended_cells_detected \o ExtendedCellMarks(Station, result.extended_cells)
        /\ trace' = Append(trace, [station_id |-> Station, raised |-> TRUE,
                                   before |-> [sheets |-> all_sheets, physical |-> df_physical],
                                   marked |-> result.sheets,
                                   after |-> [sheets |-> result.sheets,
                                              physical |-> df_physical],
                                   correct_values |-> NoValues,
                                   extended_cells |-> result.extended_cells,
                                   queued |-> FALSE,
                                   corrections |-> <<>>])
    /\ idx' = idx + 1
    /\ UNCHANGED <<df_physical, template_manager, extended_detector, df_anomalous, pc,
                   correct_values, all_corrections, corrections_log,
                   manual_review_required, site_start>>
    /\ UNCHANGED <<blank_filler, call, returned, main_frame>>

Applied ==
    apply_corrections(all_sheets, df_physical, template_manager, Station, correct_values)

\* apply_corrections returns and its records are added to all_corrections
ApplyCorrections ==
    /\ pc = "apply"
    /\ \E applied \in {Applied} :
        /\ all_sheets' = applied.sheets
        /\ df_physical' = applied.physical
        /\ all_corrections' = all_corrections \o applied.corrections_made
        /\ trace' = Append(trace, [station_id |-> Station, raised |-> FALSE,
                                   before |-> [sheets |-> site_start.sheets,
                                               physical |-> site_start.physical],
                                   marked |-> all_sheets,
                                   after |-> [sheets |-> applied.sheets,
                                              physical |-> applied.physical],
                                   correct_values |-> correct_values,
                                   extended_cells |-> site_start.extended_cells,
                                   queued |-> site_start.queued,
                                   corrections |-> applied.corrections_made])
    /\ idx' = idx + 1
    /\ pc' = "process"
    /\ UNCHANGED <<template_manager, extended_detector, df_anomalous, correct_values,
                   corrections_log, manual_review_required, extended_cells_detected,
                   site_start>>
    /\ UNCHANGED <<blank_filler, call, returned, main_frame>>

\* the loop is over: self.corrections_log = all_corrections
Finish ==
    /\ pc = "process"
    /\ idx > Len(df_anomalous)
    /\ corrections_log' = all_corrections
    /\ pc' = "done"
    /\ UNCHANGED <<all_sheets, df_physical, template_manager, extended_detector,
                   df_anomalous, idx, correct_values, all_corrections,
                   manual_review_required, extended_cells_detected, site_start, trace>>
    /\ UNCHANGED <<blank_filler, call, returned, main_frame>>

Next == ProcessStation \/ ProcessStationRaises \/ ApplyCorrections \/ Finish

(***************************************************************************)
(* BlankFieldFiller.  The object is [template_by_station,                  *)
(* physical_by_station, value_cache, stats]; a grouped table is [loaded,   *)
(* cols, rows], loaded = FALSE standing for None (no file, a file that     *)
(* could not be read, or one without station_id).  value_cache is a        *)
(* function on the keys <<station_id, field>> cached so far.               *)
(***************************************************************************)
target_fields == <<"structure_owner", "structure_type", "tx_type">>

NoTable == [loaded |-> FALSE, cols |-> {}, rows |-> <<>>]

\* is_blank(value)
is_blank(value) ==
    \/ IsNa(value)
    \/ Strip(PyStr(value)) = <<>>
    \/ Strip(PyStr(value)) = <<"-">>

\* the first value instead of the most frequent one
get_first_value(values) == IF values = <<>> THEN None ELSE values[1]

\* get_most_common_value(values)
get_most_common_value(values) == IF values = <<>> THEN None ELSE MostCommon(values)

\* [v for v in df.loc[df['station_id'] == station_id, field] if not is_blank(v)]
NonBlankValues(rows, station_id, field) ==
    FilterSeq(MapSeq(SelectRows(rows, StationRows(rows, station_id)), LAMBDA r : r[field]),
              LAMBDA v : ~is_blank(v))

\* step 1 of find_value_for_station_field: the non-blank values of all the
\* sheets that have the field, in sheet order
RECURSIVE SheetValues(_, _, _)
SheetValues(sheets, station_id, field) ==
    IF sheets = <<>> THEN <<>>
    ELSE (IF field \in Head(sheets).cols
          THEN NonBlankValues(Head(sheets).rows, station_id, field)
          ELSE <<>>)
         \o SheetValues(Tail(sheets), station_id, field)

\* steps 2 and 3: get_group(station_id) of a grouped table (KeyError when
\* the station is not in it), then the non-blank values of the field
GroupValues(by_station, station_id, field) ==
    IF ~by_station.loaded THEN <<>>
    ELSE IF StationRows(by_station.rows, station_id) = {} THEN <<>>
    ELSE IF field \notin by_station.cols THEN <<>>
    ELSE NonBlankValues(by_station.rows, station_id, field)

\* only a value that was found is kept in the cache
CachedWhenFound(filler, cache_key, value, consulted) ==
    [value |-> value,
     consulted |-> consulted,
     filler |-> IF value = None THEN filler
                ELSE [filler EXCEPT !.value_cache =
                        [k \in DOMAIN @ \cup {cache_key} |->
                            IF k = cache_key THEN value ELSE @[k]]]]

\* self.value_cache[cache_key] = value; return value.  consulted lists
\* the sources the call read
Cached(filler, cache_key, value, consulted) ==
    [value |-> value,
     consulted |-> consulted,
     filler |-> [filler EXCEPT !.value_cache =
                    [k \in DOMAIN @ \cup {cache_key} |->
                        IF k = cache_key THEN value ELSE @[k]]]]

\* find_value_for_station_field(station_id, field, all_sheets)
find_value_for_station_field(filler, station_id, field, working_sheets) ==
    IF <<station_id, field>> \in DOMAIN filler.value_cache
    THEN [value |-> filler.value_cache[<<station_id, field>>], consulted |-> {},
          filler |-> filler]
    ELSE Bind(SheetValues(working_sheets, station_id, field), LAMBDA all_values :
         IF all_values # <<>>
         THEN Cached(filler, <<station_id, field>>, get_most_common_value(all_values),
                     {"sheets"})
         ELSE Bind(GroupValues(filler.template_by_station, station_id, field),
                   LAMBDA template_values :
         IF template_values # <<>>
         THEN Cached(filler, <<station_id, field>>, get_most_common_value(template_values),
                     {"sheets", "template"})
         ELSE Bind(GroupValues(filler.physical_by_station, station_id, field),
                   LAMBDA physical_values :
         Bind({"sheets"}
                \cup (IF filler.template_by_station.loaded THEN {"template"} ELSE {})
                \cup (IF filler.physical_by_station.loaded THEN {"physical"} ELSE {}),
              LAMBDA consulted :
         IF physical_values # <<>>
         THEN Cached(filler, <<station_id, field>>, get_most_common_value(physical_values),
                     consulted)
         ELSE Cached(filler, <<station_id, field>>, None, consulted)))))

\* the rows of the station whose field is blank
\* every row of the station counts as blank in the field
EveryStationRow(rows, station_id, field) == StationRows(rows, station_id)

BlankRows(rows, station_id, field) ==
    {i \in StationRows(rows, station_id) : is_blank(rows[i][field])}

\* stations_with_blanks as the list of its (station_id, field) pairs in the
\* order fill_blanks_in_sheet visits them: the stations in the order a
\* blank was first found for them (field by field, then row order), the
\* fields of a station in target order
PairsWithBlanks(df_sheet) ==
    LET stations == UniqueValues(MapSeq(df_sheet.rows, LAMBDA r : r["station_id"]))
        fields == FilterSeq(target_fields, LAMBDA f : f \in df_sheet.cols)
        HasBlank(station_id, field) == BlankRows(df_sheet.rows, station_id, field) # {}
        found == [f \in 1..Len(fields) |->
                    FilterSeq(stations, LAMBDA st : HasBlank(st, fields[f]))]
        RECURSIVE Flatten(_)
        Flatten(q) == IF q = <<>> THEN <<>> ELSE Head(q) \o Flatten(Tail(q))
        order == UniqueValues(Flatten(found))
    IN  Flatten([k \in 1..Len(order) |->
                    MapSeq(FilterSeq(fields, LAMBDA f : HasBlank(order[k], f)),
                           LAMBDA f : <<order[k], f>>)])

AddStats(stats, key, n) == [stats EXCEPT ![key] = @ + n]

\* one turn of the loop of fill_blanks_in_sheet over a (station_id, field)
\* pair: state is [filler, rows, lookups], rows those of df_filled
FillPair(state, pair, working_sheets) ==
    Bind(find_value_for_station_field(state.filler, pair[1], pair[2], working_sheets),
         LAMBDA found :
    Bind(BlankRows(state.rows, pair[1], pair[2]), LAMBDA blank_mask :
    Bind(AddStats(found.filler.stats, "total_blanks_found", Cardinality(blank_mask)),
         LAMBDA stats :
        [filler |->
            [found.filler EXCEPT !.stats =
                IF ~Truthy(found.value)
                THEN AddStats(stats, "still_blank", Cardinality(blank_mask))
                ELSE IF SheetValues(working_sheets, pair[1], pair[2]) # <<>>
                THEN AddStats(stats, "filled_from_same_site", Cardinality(blank_mask))
                ELSE IF found.filler.template_by_station.loaded
                THEN AddStats(stats, "filled_from_template", Cardinality(blank_mask))
                ELSE AddStats(stats, "filled_from_physical", Cardinality(blank_mask))],
         rows |->
            IF ~Truthy(found.value) THEN state.rows
            ELSE [i \in 1..Len(state.rows) |->
                    IF i \in blank_mask
                    THEN [state.rows[i] EXCEPT ![pair[2]] = found.value]
                    ELSE state.rows[i]],
         lookups |->
            Append(state.lookups,
                   [station_id |-> pair[1], field |-> pair[2], value |-> found.value,
                    consulted |-> found.consulted])])))

RECURSIVE FillPairs(_, _, _)
FillPairs(state, pairs, working_sheets) ==
    IF pairs = <<>> THEN state
    ELSE FillPairs(FillPair(state, Head(pairs), working_sheets), Tail(pairs), working_sheets)

\* fill_blanks_in_sheet(sheet_name, df_sheet, all_sheets): the filler after
\* the call, the rows of the sheet it returns, and the lookups it made
fill_blanks_in_sheet(filler, df_sheet, working_sheets) ==
    IF "station_id" \notin df_sheet.cols
    THEN [filler |-> filler, rows |-> df_sheet.rows, lookups |-> <<>>]
    ELSE FillPairs([filler |-> filler, rows |-> df_sheet.rows, lookups |-> <<>>],
                   PairsWithBlanks(df_sheet), working_sheets)

(***************************************************************************)
(* The runs: the engine is constructed on a workbook and processes a       *)
(* batch of anomalous rows                                                 *)
(***************************************************************************)
InitAttribute ==
    \E attr \in FocusAttributes :
        \E v1 \in StoredValues(attr), v2 \in StoredValues(attr), v3 \in StoredUmts(attr),
           raw \in RawCells(attr), nn \in NoiseAndNarrow :
            InitWith(AttributeWorkbook(attr, v1, v2, v3, nn[2]), NoTemplate, TRUE,
                     AttributeBatch(attr, raw, nn[1]))

InitCoordinate ==
    \E cell2 \in SecondCells, place2 \in Places, third \in ThirdSectors,
       detector \in BOOLEAN, raw \in RawLatitudes :
        InitWith(CoordinateWorkbook(cell2, place2, third), NoTemplate, detector,
                 <<With(DefaultAnomalous(SidAB), "latitude", raw)>>)

InitPrecise ==
    \E d \in PreciseOffsets, more \in {<<>>, <<LatMain + 40>>} :
        InitWith(PreciseWorkbook(d), NoTemplate, TRUE,
                 <<With(DefaultAnomalous(SidAB), "latitude", BareList(<<LatMain + d>> \o more))>>)

InitUniform ==
    \E t \in StoredVariants, detector \in BOOLEAN :
        InitWith(UniformWorkbook(t[1], t[2]), NoTemplate, detector,
                 <<With(DefaultAnomalous(SidAB), t[1], ListText(<<PyStr(t[2])>>))>>)

InitBatch ==
    \E wb \in BatchWorkbooks, b \in Batches(MaxAnom) \ {<<>>} :
        InitWith(wb, NoTemplate, TRUE, b)

InitTemplate ==
    \E tm \in Templates, tx \in {Str(TxtFibre), Str(TxtRadio)}, raw \in TemplateRawRows :
        InitWith(TemplateWorkbook(tx), tm, TRUE, <<raw>>)

Init ==
    InitAttribute \/ InitCoordinate \/ InitPrecise \/ InitUniform \/ InitBatch \/ InitTemplate

Spec == Init /\ [][Next]_vars

(***************************************************************************)
(* The scorer, the type selector and the detector called on their own:     *)
(* call holds the function and its argument, returned the result           *)
(***************************************************************************)
MaxLen == 3

\* candidate values: texts, the text of a number, numbers, empty entries
ScoreValues == {Str(<<"a">>), Str(<<"b">>), Str(PyStr(Num(One))), Num(One), Num(0),
                Str(<<>>), None}

TxtDashPadded == <<" ", "-", " ">>

TypeValues == {Str(TypeTower), Str(TypeMast), Str(TxtTowerPadded), Str(TxtUnknownType),
               Str(TxtDash), Str(TxtDashPadded), Str(TxtBlank), Str(<<>>), Num(One)}

\* the sectors of station AB: a first one, a second one around the first,
\* and possibly a third
FarPlace == Place(ThresholdStep + 1, 0)
FirstSectors == {CellAB1, CellABR1} \X {Place(0, 0), FarPlace}
SecondSectors == ({Str(c) : c \in SecondCells} \cup {NaN}) \X Places
OtherSectors == {<<>>} \cup {<<Str(c), p>> : c \in {CellAB3, CellABR1, CellABX2},
                                            p \in {Place(0, 0), FarPlace,
                                                   Place(DiagLat + 1, DiagLon)}}
DetectorColumns == {Columns, Columns \ {"latitude"}}

\* a column the table lacks reads as blank
StationData(cols, first, second, other) ==
    [cols |-> cols,
     rows |-> Sheet(SheetLte, cols,
                    <<At(DefaultRow(SidAB, first[1]), first[2]),
                      At(With(DefaultRow(SidAB, CellAB2), "station_cell_id", second[1]),
                         second[2])>>
                    \o (IF other = <<>> THEN <<>>
                        ELSE <<At(With(DefaultRow(SidAB, CellAB3), "station_cell_id",
                                       other[1]), other[2])>>)).rows]

EmptyStationData == [cols |-> Columns, rows |-> <<>>]

InitScore ==
    \E n \in 0..MaxLen : \E values_list \in [1..n -> ScoreValues] :
        call = [fn |-> "calculate_discrepancy_score", args |-> values_list]

InitType ==
    \E n \in 0..MaxLen : \E type_list \in [1..n -> TypeValues] :
        call = [fn |-> "select_best_structure_type", args |-> type_list]

InitDetect ==
    \/ \E first \in FirstSectors, second \in SecondSectors, other \in OtherSectors,
          cols \in DetectorColumns :
           call = [fn |-> "detect_extended_cells_in_station",
                   args |-> StationData(cols, first, second, other)]
    \/ call = [fn |-> "detect_extended_cells_in_station", args |-> EmptyStationData]

\* owner candidates: spellings of two owners, a blank text, empty entries
\* and a number
TxtOtherMixed == <<"O", "t", "h", "e", "r">>
TxtAcmeLowerPadded == TxtAcmeLower \o <<" ">>
OwnerValues == {Str(TxtAcme), Str(TxtAcmeLower), Str(TxtAcmeLowerPadded), Str(TxtOtherMixed),
                Str(TxtBlank), Str(<<>>), None, Num(One)}

InitOwner ==
    \E n \in 0..MaxLen : \E owner_list \in [1..n -> OwnerValues] :
        call = [fn |-> "select_best_structure_owner", args |-> owner_list]

\* coordinate candidates: texts of numbers within the bounds, one of them
\* with a seventh decimal, one beyond the bounds, a text that is no
\* number, an empty entry and a number
TxtNoNumber == <<"n", "/", "a">>
CoordinateValues == {Str(PyStr(Num(LatMain))), Str(PyStr(Num(LatMain + 7))),
                    Str(PyStr(Num(LatMain + 2 * One))), Str(PyStr(Num(9 * One))),
                    Str(TxtNoNumber), Str(<<>>), Num(LatMain + 3)}

\* values of config['coordinate_threshold']
ThresholdValues == {0, coordinate_threshold, 10 * One}

InitCoordinateCall ==
    \E n \in 0..MaxLen : \E lst \in [1..n -> CoordinateValues] :
        \E threshold \in ThresholdValues :
            \E fn \in {"select_best_latitude", "select_best_longitude"} :
                call = [fn |-> fn, args |-> lst, threshold |-> threshold]

\* height candidates: texts of heights within the bounds, above and below
\* them, a text that is no number, an empty entry and a number
HeightValues == {Str(PyStr(Num(30 * One))), Str(PyStr(Num((91 * One) \div 2))),
                Str(PyStr(Num(150 * One))), Str(PyStr(Num(One \div 2))),
                Str(TxtNoNumber), Str(<<>>), Num(30 * One)}

InitHeight ==
    \E n \in 0..MaxLen : \E height_list \in [1..n -> HeightValues] :
        call = [fn |-> "select_best_structure_height", args |-> height_list]

\* name candidates: the name of the template, names close to it and far
\* from it, padded and blank ones
TxtNamePax == <<"L", "a", " ", "P", "a", "x">>
TxtNameDotted == TxtName \o <<".">>
NameTexts == {TxtName, TxtNamePax, TxtNameDotted, TxtNameLong, TxtNameOther}
NameValues == {Str(t) : t \in NameTexts} \cup {Str(TxtNamePadded), Str(TxtBlank), None}

\* templates: a row of the station with a name, a row without a name ahead
\* of one with a name, no name at all, no row of the station, no name column
NameTemplates ==
    {Template(<<TemplateRow(SidAB, Str(TxtName), NaN, NaN, NaN)>>),
     Template(<<TemplateRow(SidAB, NaN, NaN, NaN, NaN),
                TemplateRow(SidAB, Str(TxtNameLong), NaN, NaN, NaN)>>),
     Template(<<TemplateRow(SidAB, NaN, NaN, NaN, NaN)>>),
     Template(<<TemplateRow(SidCD, Str(TxtName), NaN, NaN, NaN)>>),
     [active |-> TRUE, cols |-> TemplateColumns \ {"name"},
      rows |-> <<TemplateRow(SidAB, NaN, NaN, NaN, NaN)>>]}

InitName ==
    \E n \in 0..MaxLen : \E name_list \in [1..n -> NameValues] :
        \E tm \in NameTemplates \cup {NoTemplate} :
            call = [fn |-> "select_best_name", args |-> name_list, tm |-> tm,
                    station_id |-> SidAB]

InitReference ==
    \E n \in 0..MaxLen : \E candidate_names \in [1..n -> NameTexts] :
        \E tm \in NameTemplates :
            call = [fn |-> "get_reference_name", args |-> candidate_names, tm |-> tm,
                    station_id |-> SidAB]

\* baseline workbooks of one or two sheets, each with all the columns,
\* without optional ones or without required ones
ConstructorColumns == {Columns, Columns \ {"cell_type"}, NarrowColumns,
                       Columns \ {"station_id"}}

InitEngine ==
    \E n \in 1..2 : \E cols \in [1..n -> ConstructorColumns] :
        call = [fn |-> "__init__",
                args |-> [i \in 1..n |->
                            Sheet(IF i = 1 THEN SheetLte ELSE SheetUmts, cols[i],
                                  <<DefaultRow(SidAB, CellAB1)>>)]]

\* get_reference_value(station_id, 'tx_type') on a template whose rows of
\* station AB hold the given cells
MaxTemplateRows == 4

ReferenceCells == {Str(TxtFibre), Str(TxtRadio), Str(TxtDash), Str(TxtBlank), NaN}

InitReferenceValue ==
    \E n \in 0..MaxTemplateRows : \E cells \in [1..n -> ReferenceCells] :
        \E station_id \in {SidAB, SidCD} :
            call = [fn |-> "get_reference_value", args |-> "tx_type",
                    tm |-> Template([i \in 1..n |->
                                        TemplateRow(SidAB, Str(TxtName), NaN, NaN, cells[i])]),
                    station_id |-> station_id]

InitCalls ==
    /\ EngineInit(<<>>, NoTemplate, FALSE, <<>>)
    /\ blank_filler = NoFiller
    /\ returned = NotReturned
    /\ main_frame = NoMain
    /\ (InitScore \/ InitType \/ InitDetect \/ InitOwner
          \/ InitCoordinateCall \/ InitHeight \/ InitName
          \/ InitReference \/ InitEngine \/ InitReferenceValue)

Returns(value) ==
    /\ ~returned.done
    /\ returned' = [done |-> TRUE, value |-> value]
    /\ UNCHANGED <<engine_vars, blank_filler, call, main_frame>>

CalculateDiscrepancyScore ==
    /\ call.fn = "calculate_discrepancy_score"
    /\ Returns(calculate_discrepancy_score(call.args))

SelectBestStructureType ==
    /\ call.fn = "select_best_structure_type"
    /\ Returns(select_best_structure_type(call.args))

DetectExtendedCellsInStation ==
    /\ call.fn = "detect_extended_cells_in_station"
    /\ Returns(detect_extended_cells_in_station(call.args))

SelectBestStructureOwner ==
    /\ call.fn = "select_best_structure_owner"
    /\ Returns(select_best_structure_owner(call.args))

SelectBestLatitude ==
    /\ call.fn = "select_best_latitude"
    /\ Returns(SelectCoordinate(call.args, latitude_min, latitude_max, call.threshold))

SelectBestLongitude ==
    /\ call.fn = "select_best_longitude"
    /\ Returns(SelectCoordinate(call.args, longitude_min, longitude_max, call.threshold))

SelectBestStructureHeight ==
    /\ call.fn = "select_best_structure_height"
    /\ Returns(select_best_structure_height(call.args))

SelectBestName ==
    /\ call.fn = "select_best_name"
    /\ Returns(select_best_name(call.tm, call.args, call.station_id))

GetReferenceName ==
    /\ call.fn = "get_reference_name"
    /\ Returns(get_reference_name(call.tm, call.station_id, call.args))

GetReferenceValue ==
    /\ call.fn = "get_reference_value"
    /\ Returns(get_reference_value(call.tm, call.station_id, call.args))

\* the constructor leaves the tables of a workbook it accepts in the engine
ConstructEngine ==
    /\ call.fn = "__init__"
    /\ ~returned.done
    /\ \E result \in {Construction(call.args)} :
          /\ returned' = [done |-> TRUE, value |-> IF result.raised THEN Raise ELSE None]
          /\ all_sheets' = IF result.raised THEN all_sheets ELSE result.all_sheets
          /\ df_physical' = IF result.raised THEN df_physical ELSE result.df_physical
    /\ UNCHANGED <<template_manager, extended_detector, df_anomalous, idx, pc,
                   correct_values, all_corrections, corrections_log,
                   manual_review_required, extended_cells_detected, site_start, trace,
                   blank_filler, call, main_frame>>

NextCalls ==
    \/ CalculateDiscrepancyScore
    \/ SelectBestStructureType
    \/ DetectExtendedCellsInStation
    \/ SelectBestStructureOwner
    \/ SelectBestLatitude
    \/ SelectBestLongitude
    \/ SelectBestStructureHeight
    \/ SelectBestName
    \/ GetReferenceName
    \/ GetReferenceValue
    \/ ConstructEngine

SpecCalls == InitCalls /\ [][NextCalls]_vars

(***************************************************************************)
(* process_file of the blank filler: blank_filler holds the object         *)
(* (template_by_station, physical_by_station, value_cache, stats) and the  *)
(* frame of process_file (all_sheets, filled_sheets, the sheet it is at,   *)
(* whether the file was saved); lookups is the history of the calls of     *)
(* find_value_for_station_field                                            *)
(***************************************************************************)
NoStats == [k \in {"total_blanks_found", "filled_from_same_site", "filled_from_template",
                   "filled_from_physical", "still_blank"} |-> 0]

\* the state after __init__, load_physical_parameters and the read of the
\* file to fill
Filler(template, physical, sheets) ==
    [constructed |-> TRUE,
     template_by_station |-> template,
     physical_by_station |-> physical,
     value_cache |-> <<>>,
     stats |-> NoStats,
     all_sheets |-> sheets,
     filled_sheets |-> <<>>,
     sheet |-> 1,
     saved |-> FALSE,
     lookups |-> <<>>]

TxtOther == <<"O", "T", "H", "E", "R">>

OwnerCells == {Str(TxtAcme), Str(TxtTelco), NaN, Str(TxtDash)}

\* the file to fill: sheet LTE with two sectors of AB and one of CD, sheet
\* UMTS with one sector of AB, possibly without the structure_type and
\* tx_type columns
FillerWorkbook(owner1, owner2, owner3, ownerCD, tx1, narrow) ==
    Workbook(With(With(DefaultRow(SidAB, CellAB1), "structure_owner", owner1),
                  "tx_type", tx1),
             With(DefaultRow(SidAB, CellAB2), "structure_owner", owner2),
             With(With(DefaultRow(SidAB, CellAB3), "structure_owner", owner3),
                  "tx_type", NaN),
             With(DefaultRow(SidCD, CellCD1), "structure_owner", ownerCD), narrow)

\* a template or baseline table: rows of one station with the given owners
OwnerTable(cols, station_id, owners) ==
    [loaded |-> TRUE, cols |-> cols,
     rows |-> Sheet(SheetLte, cols,
                    MapSeq(owners, LAMBDA o : With(With(DefaultRow(station_id, CellAB1),
                                                        "structure_owner", o),
                                                   "tx_type", Str(TxtRadio)))).rows]

FillerTemplates ==
    {NoTable,
     OwnerTable(Columns, SidAB, <<Str(TxtTelco)>>),
     OwnerTable(Columns, SidAB, <<Str(TxtAcme), Str(TxtTelco), Str(TxtTelco)>>),
     OwnerTable(Columns, SidAB, <<NaN, Str(TxtDash)>>),
     OwnerTable(Columns, SidCD, <<Str(TxtTelco)>>),
     OwnerTable(Columns \ {"structure_owner"}, SidAB, <<NaN>>)}

FillerBaselines ==
    {NoTable,
     OwnerTable(Columns, SidAB, <<Str(TxtAcme), Str(TxtOther), Str(TxtOther)>>),
     OwnerTable(Columns, SidAB, <<Str(TxtBlank)>>),
     OwnerTable(Columns \ {"tx_type"}, SidCD, <<Str(TxtOther)>>)}

InitFiller ==
    /\ EngineInit(<<>>, NoTemplate, FALSE, <<>>)
    /\ call = NoCall
    /\ returned = NotReturned
    /\ main_frame = NoMain
    /\ \E owner1 \in OwnerCells, owner2 \in OwnerCells,
          owner3 \in OwnerCells \cup {Str(TxtBlank)}, ownerCD \in {Str(TxtAcme), NaN},
          tx1 \in {Str(TxtFibre), NaN}, narrow \in BOOLEAN,
          template \in FillerTemplates, physical \in FillerBaselines :
           blank_filler = Filler(template, physical,
                                 FillerWorkbook(owner1, owner2, owner3, ownerCD, tx1,
                                                narrow))

\* the loop of process_file: fill_blanks_in_sheet for the next sheet
FillBlanksInSheet ==
    /\ blank_filler.constructed
    /\ blank_filler.sheet <= Len(blank_filler.all_sheets)
    /\ \E filled \in {fill_blanks_in_sheet(blank_filler,
                                            blank_filler.all_sheets[blank_filler.sheet],
                                            blank_filler.all_sheets)} :
          blank_filler' =
              [filled.filler EXCEPT
                  !.filled_sheets =
                      Append(@, [blank_filler.all_sheets[blank_filler.sheet]
                                    EXCEPT !.rows = filled.rows]),
                  !.sheet = @ + 1,
                  !.lookups = @ \o filled.lookups]
    /\ UNCHANGED <<engine_vars, call, returned, main_frame>>

\* the filled sheets are written to the output file
SaveFilled ==
    /\ blank_filler.constructed
    /\ blank_filler.sheet > Len(blank_filler.all_sheets)
    /\ ~blank_filler.saved
    /\ blank_filler' = [blank_filler EXCEPT !.saved = TRUE]
    /\ UNCHANGED <<engine_vars, call, returned, main_frame>>

NextFiller == FillBlanksInSheet \/ SaveFilled

SpecFiller == InitFiller /\ [][NextFiller]_vars

(***************************************************************************)
(* main, from the processing of the anomalous file on (the engine is       *)
(* constructed).  main_frame.step is the step main is at, bound the local  *)
(* names assigned so far, written the files written, exit how the process  *)
(* ends: "returned" (main returned after a logged error), "completed" (the *)
(* end of main) or "fatal" (an exception left main: the handler of the     *)
(* script prints it and calls sys.exit(1)).  Every step can fail: the      *)
(* failure is an input.                                                    *)
(***************************************************************************)
MainStart == [step |-> "process", exit |-> "running", bound |-> {}, written |-> {}]

InitMain ==
    \E wb \in BatchWorkbooks, b \in Batches(MaxAnom) :
        /\ EngineInit(wb, NoTemplate, TRUE, b)
        /\ blank_filler = NoFiller
        /\ call = NoCall
        /\ returned = NotReturned
        /\ main_frame = MainStart

MainAt(step) == main_frame.step = step /\ main_frame.exit = "running"

MainOnly == UNCHANGED <<engine_vars, blank_filler, call, returned>>

\* 7: engine.process_anomalous_file, one step of its loop
ProcessAnomalousFile == MainAt("process") /\ Next

\* 7: it raises, reading the file or a row without station_id: logged, return
ProcessAnomalousFileRaises ==
    /\ MainAt("process")
    /\ pc = "process"
    /\ main_frame' = [main_frame EXCEPT !.exit = "returned"]
    /\ MainOnly

\* 7: it returned the corrections
ProcessAnomalousFileReturns ==
    /\ MainAt("process")
    /\ pc = "done"
    /\ main_frame' = [main_frame EXCEPT !.step = "save"]
    /\ MainOnly

\* 8: timestamp and corrected_file are assigned, then save_corrected_data;
\* a failure is logged and main returns
SaveCorrectedData ==
    /\ MainAt("save")
    /\ \E raised \in BOOLEAN :
          main_frame' =
              IF raised
              THEN [main_frame EXCEPT !.bound = @ \cup {"timestamp", "corrected_file"},
                                      !.exit = "returned"]
              ELSE [main_frame EXCEPT !.bound = @ \cup {"timestamp", "corrected_file"},
                                      !.written = @ \cup {"corrected_file"},
                                      !.step = "report"]
    /\ MainOnly

\* 9: report_file is assigned, then generate_correction_report; a failure
\* is logged and main goes on
GenerateCorrectionReport ==
    /\ MainAt("report")
    /\ \E raised \in BOOLEAN :
          main_frame' =
              [main_frame EXCEPT !.bound = @ \cup {"report_file"},
                                 !.written = IF raised THEN @ ELSE @ \cup {"report_file"},
                                 !.step = "validate"]
    /\ MainOnly

\* 10: inside one try, the validator is constructed and both workbooks are
\* read, then validation_report_file is assigned and the report generated;
\* a failure at either place is logged as a warning and main goes on
ExecuteValidations ==
    /\ MainAt("validate")
    /\ \E raised \in {"loading", "reporting", "nowhere"} :
          main_frame' =
              [main_frame EXCEPT
                  !.bound = IF raised = "loading" THEN @
                            ELSE @ \cup {"validator", "validation_report_file"},
                  !.written = IF raised = "nowhere" THEN @ \cup {"validation_report_file"}
                              ELSE @,
                  !.step = "prompt"]
    /\ MainOnly

\* 11: input() outside any try: the answer, or EOFError on a closed input
AskToFillBlanks ==
    /\ MainAt("prompt")
    /\ \E user_input \in {"s", "n", "EOFError"} :
          main_frame' =
              IF user_input = "EOFError" THEN [main_frame EXCEPT !.exit = "fatal"]
              ELSE [main_frame EXCEPT !.bound = @ \cup {"user_input"},
                                      !.step = IF user_input = "s" THEN "fill"
                                               ELSE "summary"]
    /\ MainOnly

\* 11: the blank filler is constructed and process_file run inside a try; a
\* failure is logged as a warning
FillBlanks ==
    /\ MainAt("fill")
    /\ \E raised \in BOOLEAN :
          main_frame' =
              [main_frame EXCEPT !.written = IF raised THEN @ ELSE @ \cup {"filled_file"},
                                 !.step = "summary"]
    /\ MainOnly

\* 12: the summary prints corrected_file, report_file and
\* validation_report_file; a name that was never assigned raises
\* UnboundLocalError, which leaves main
FinalSummary ==
    /\ MainAt("summary")
    /\ main_frame' =
          [main_frame EXCEPT
              !.exit = IF {"corrected_file", "report_file", "validation_report_file"}
                            \subseteq main_frame.bound
                       THEN "completed" ELSE "fatal"]
    /\ MainOnly

NextMain ==
    \/ ProcessAnomalousFile
    \/ ProcessAnomalousFileRaises
    \/ ProcessAnomalousFileReturns
    \/ SaveCorrectedData
    \/ GenerateCorrectionReport
    \/ ExecuteValidations
    \/ AskToFillBlanks
    \/ FillBlanks
    \/ FinalSummary

SpecMain == InitMain /\ [][NextMain]_vars

(***************************************************************************)
(* The run of process_anomalous_file where pandas enforces the dtype check *)
(***************************************************************************)
\* workbooks whose UMTS sheet holds station AB with or without an owner
StrictWorkbooks ==
    {AttributeWorkbook("structure_owner", v1, v2, v3, FALSE) :
        v1 \in {Str(TxtAcme), Str(TxtAcmeLower)}, v2 \in {Str(TxtAcme), Str(TxtAcmeLower)},
        v3 \in {Str(TxtAcme), NaN}}

InitStrict ==
    \E wb \in StrictWorkbooks, b \in Batches(MaxAnom) \ {<<>>} :
        InitWith(wb, NoTemplate, TRUE, b)

StrictApplied ==
    strict_apply_corrections(all_sheets, df_physical, template_manager, Station,
                             correct_values)

\* apply_corrections returns: no write was refused
ApplyCorrectionsReturns ==
    /\ pc = "apply"
    /\ ~StrictApplied.raised
    /\ ApplyCorrections

\* apply_corrections raises at a refused write: the except clause of
\* process_anomalous_file logs and continues with the next row, extend is
\* not reached, the writes made before stay in the tables
ApplyCorrectionsRaises ==
    /\ pc = "apply"
    /\ \E applied \in {StrictApplied} :
        /\ applied.raised
        /\ all_sheets' = applied.sheets
        /\ df_physical' = applied.physical
        /\ trace' = Append(trace, [station_id |-> Station, raised |-> TRUE,
                                   before |-> [sheets |-> site_start.sheets,
                                               physical |-> site_start.physical],
                                   marked |-> all_sheets,
                                   after |-> [sheets |-> applied.sheets,
                                              physical |-> applied.physical],
                                   correct_values |-> correct_values,
                                   extended_cells |-> site_start.extended_cells,
                                   queued |-> site_start.queued,
                                   corrections |-> <<>>])
    /\ idx' = idx + 1
    /\ pc' = "process"
    /\ UNCHANGED <<template_manager, extended_detector, df_anomalous, correct_values,
                   all_corrections, corrections_log, manual_review_required,
                   extended_cells_detected, site_start>>
    /\ UNCHANGED <<blank_filler, call, returned, main_frame>>

NextStrict ==
    \/ ProcessStation
    \/ ProcessStationRaises
    \/ ApplyCorrectionsReturns
    \/ ApplyCorrectionsRaises
    \/ Finish

SpecStrict == InitStrict /\ [][NextStrict]_vars

(***************************************************************************)
(* Properties of the batch.  trace[i] records what was done for the i-th   *)
(* anomalous row: the tables before it, after marking and after            *)
(* apply_corrections, the resolved record and the records emitted.         *)
(***************************************************************************)
\* the values a table holds in a column for the rows of a station, in order
StoredColumn(rows, station_id, col) ==
    MapSeq(SelectRows(rows, StationRows(rows, station_id)), LAMBDA r : r[col])

StoredSet(rows, station_id, col) == Range(StoredColumn(rows, station_id, col))

SameColumn(before, after, station_id, col) ==
    /\ \A k \in 1..Len(before.sheets) :
          StoredColumn(after.sheets[k].rows, station_id, col)
              = StoredColumn(before.sheets[k].rows, station_id, col)
    /\ StoredColumn(after.physical.rows, station_id, col)
          = StoredColumn(before.physical.rows, station_id, col)

\* the records of an entry for one sheet and one parameter
RecordsFor(entry, sheet_name, param) ==
    {j \in 1..Len(entry.corrections) :
        /\ entry.corrections[j].station_id = entry.station_id
        /\ entry.corrections[j].sheet_name = sheet_name
        /\ entry.corrections[j].parameter = param}

\* C1: a site for which the detection returned at least one extended cell
\* keeps, through apply_corrections, every latitude and every longitude of
\* its rows, in every sheet and in the consolidated table
ExtendedCellsKeepCoordinates ==
    \A i \in 1..Len(trace) :
        (~trace[i].raised /\ trace[i].extended_cells # <<>>) =>
            \A col \in {"latitude", "longitude"} :
                SameColumn(trace[i].before, trace[i].after, trace[i].station_id, col)

\* a site with an extended cell whose resolved record holds a latitude,
\* copied by complete_blank_fields, that one of its rows does not hold
ExtendedCellsCoordinatesCopied ==
    \E i \in 1..Len(trace) :
        /\ ~trace[i].raised
        /\ trace[i].extended_cells # <<>>
        /\ trace[i].correct_values.val["latitude"].k = "num"
        /\ \E k \in 1..Len(trace[i].before.sheets) :
              \E v \in StoredSet(trace[i].before.sheets[k].rows, trace[i].station_id,
                                 "latitude") :
                  v # trace[i].correct_values.val["latitude"]

\* the keys of the resolved record that apply_corrections may write
AppliedParams(cv) ==
    cv.keys \ (IF cv.has_extended_cells THEN {"latitude", "longitude"} ELSE {})

\* C2: for a sheet with rows of the site and a resolved attribute that is a
\* column of the sheet, the rows are overwritten with the resolved value and
\* exactly one record is emitted when they hold more than one distinct value
\* or a single value other than the resolved one; otherwise the rows stay as
\* they are and no record is emitted
OverwriteIffDifferent ==
    \A i \in 1..Len(trace) :
        ~trace[i].raised =>
            \A k \in 1..Len(trace[i].marked) :
                LET sid == trace[i].station_id
                    old == trace[i].marked[k]
                    new == trace[i].after.sheets[k]
                    cv == trace[i].correct_values
                IN  StationRows(old.rows, sid) # {} =>
                        \A p \in AppliedParams(cv) \cap old.cols :
                            IF \/ Cardinality(StoredSet(old.rows, sid, p)) > 1
                               \/ StoredSet(old.rows, sid, p) # {cv.val[p]}
                            THEN /\ \A v \in StoredSet(new.rows, sid, p) :
                                        v = cv.val[p] \/ (cv.val[p] = None /\ IsNa(v))
                                 /\ Cardinality(RecordsFor(trace[i], old.name, p)) = 1
                            ELSE /\ StoredColumn(new.rows, sid, p) = StoredColumn(old.rows, sid, p)
                                 /\ RecordsFor(trace[i], old.name, p) = {}

\* one site with an attribute of mixed stored values, an attribute whose
\* single stored value is not the resolved one, and an attribute whose
\* single stored value is the resolved one
OverwriteCasesMet ==
    \E i \in 1..Len(trace) :
        /\ ~trace[i].raised
        /\ \E k \in 1..Len(trace[i].marked) :
              LET sid == trace[i].station_id
                  old == trace[i].marked[k]
                  cv == trace[i].correct_values
              IN  /\ \E p \in AppliedParams(cv) \cap old.cols :
                        Cardinality(StoredSet(old.rows, sid, p)) > 1
                  /\ \E p \in AppliedParams(cv) \cap old.cols :
                        StoredSet(old.rows, sid, p) = {cv.val[p]}
        /\ \E k \in 1..Len(trace[i].marked) :
              LET sid == trace[i].station_id
                  old == trace[i].marked[k]
                  cv == trace[i].correct_values
              IN  \E p \in AppliedParams(cv) \cap old.cols :
                      /\ Cardinality(StoredSet(old.rows, sid, p)) = 1
                      /\ StoredSet(old.rows, sid, p) # {cv.val[p]}

NumericParams == {"latitude", "longitude", "structure_height"}

LowerBound(attr) ==
    CASE attr = "latitude" -> latitude_min
      [] attr = "longitude" -> longitude_min
      [] attr = "structure_height" -> height_min

UpperBound(attr) ==
    CASE attr = "latitude" -> latitude_max
      [] attr = "longitude" -> longitude_max
      [] attr = "structure_height" -> height_max

\* a candidate of the attribute is not a number, or all are out of bounds
UnresolvedNumeric(row, attr) ==
    LET fl == FloatsOf(parse_list_values(row[attr]))
    IN  /\ parse_list_values(row[attr]) # <<>>
        /\ \/ ~fl.ok
           \/ \A j \in 1..Len(fl.xs) : ~InRange(LowerBound(attr), UpperBound(attr), fl.xs[j])

\* C3: a numeric attribute that is unresolved, for a candidate that is not a
\* number or for candidates that are all out of bounds, gets no record and
\* keeps its stored values in every sheet
UnresolvedNumericUntouched ==
    \A i \in 1..Len(trace) :
        \A attr \in NumericParams :
            (~trace[i].raised /\ UnresolvedNumeric(df_anomalous[i], attr)) =>
                /\ \A j \in 1..Len(trace[i].corrections) :
                      trace[i].corrections[j].parameter # attr
                /\ \A k \in 1..Len(trace[i].before.sheets) :
                      StoredColumn(trace[i].after.sheets[k].rows, trace[i].station_id, attr)
                          = StoredColumn(trace[i].before.sheets[k].rows,
                                         trace[i].station_id, attr)

\* the records of the entries of the trace, in order
RECURSIVE RecordsOf(_)
RecordsOf(entries) ==
    IF entries = <<>> THEN <<>> ELSE Head(entries).corrections \o RecordsOf(Tail(entries))

MeanAboveThreshold(row) ==
    FracGt(avg_discrepancy(DiscrepancyScores(Candidates(row))), require_manual_review_threshold)

\* the ManualReviewEntry records of the sites queued so far
QueuedEntries == FilterSeq(trace, LAMBDA e : e.queued)

RaisedAboveThreshold ==
    \E i \in 1..Len(trace) :
        /\ trace[i].raised
        /\ MeanAboveThreshold(df_anomalous[i])
        /\ trace[i].extended_cells = <<>>

\* the values the sheets hold in a column for a station
StoredInSheets(sheets, station_id, col) ==
    UNION {StoredSet(sheets[k].rows, station_id, col) :
              k \in {j \in 1..Len(sheets) : col \in sheets[j].cols}}

StationsOf(sheets) ==
    UNION {{sheets[k].rows[r]["station_id"] : r \in 1..Len(sheets[k].rows)} :
              k \in 1..Len(sheets)}

\* the workbook has no discrepancy and no blank, in the sheets and in the
\* consolidated table (where a column that a sheet lacks is blank), and every
\* anomalous row lists for each site attribute the stored value only
RoundTripInput(sheets, anomalous) ==
    /\ \A sid \in StationsOf(sheets) :
          \A attr \in Range(SiteParams) :
              Cardinality(StoredInSheets(sheets, sid, attr)) <= 1
    /\ \A k \in 1..Len(sheets) :
          \A r \in 1..Len(sheets[k].rows) :
              \A col \in ConcatCols(sheets) : ~IsBlankValue(sheets[k].rows[r][col])
    /\ \A i \in 1..Len(anomalous) :
          \A attr \in Range(SiteParams) :
              \E v \in StoredInSheets(sheets, anomalous[i]["station_id"], attr) :
                  parse_list_values(anomalous[i][attr]) = <<Str(PyStr(v))>>

\* the run emitted no record, queued no site and changed no stored value
NothingDone(sheets, physical) ==
    /\ all_corrections = <<>>
    /\ corrections_log = <<>>
    /\ manual_review_required = <<>>
    /\ all_sheets = sheets
    /\ df_physical = physical

Normalised(attr, v) ==
    CASE attr = "structure_owner" -> v.k = "str" /\ v.s = Strip(Upper(v.s))
      [] attr \in {"name", "structure_type"} -> v.k = "str" /\ v.s = Strip(v.s)
      [] attr \in {"latitude", "longitude"} ->
            v.k = "num" /\ v.n % Pow10(FracDigits - RoundDigits) = 0
      [] OTHER -> v.k = "num"

\* the template, when there is one, names the site as the sheets do and
\* holds no other tx_type for it
TemplateAgrees(tm, sheets, station_id) ==
    tm.active =>
        /\ \A v \in StoredInSheets(sheets, station_id, "name") :
              get_reference_name(tm, station_id, <<PyStr(v)>>) \in {None, v}
        /\ \/ ~Truthy(get_reference_value(tm, station_id, "tx_type"))
           \/ StoredInSheets(sheets, station_id, "tx_type")
                 = {get_reference_value(tm, station_id, "tx_type")}

DetectReturned ==
    call.fn = "detect_extended_cells_in_station" /\ returned.done

\* the text is the station_id, then R or r, then one digit or more, letter
\* case apart
IsStationRDigits(station_id, cell_id) ==
    /\ cell_id.k = "str" /\ station_id.k = "str"
    /\ \E digits \in 1..Len(cell_id.s) :
          LET n == Len(cell_id.s) - digits
          IN  /\ n = Len(station_id.s) + 1
              /\ Lower(SubSeq(cell_id.s, 1, n - 1)) = Lower(station_id.s)
              /\ cell_id.s[n] \in {"R", "r"}
              /\ \A i \in (n + 1)..Len(cell_id.s) : cell_id.s[i] \in Digits

\* the sectors that have both coordinates, and their locations
Located(rows) ==
    {i \in 1..Len(rows) : ~IsNa(rows[i]["latitude"]) /\ ~IsNa(rows[i]["longitude"])}

LocationOf(row) == <<row["latitude"].n, row["longitude"].n>>

LocationsOf(rows) == {LocationOf(rows[i]) : i \in Located(rows)}

SectorsAt(rows, l) == Cardinality({i \in Located(rows) : LocationOf(rows[i]) = l})

MostPopulated(rows) ==
    {l \in LocationsOf(rows) : \A m \in LocationsOf(rows) : SectorsAt(rows, m) <= SectorsAt(rows, l)}

\* the three conditions of a sector, for a main location
IsExtended(rows, i, main) ==
    /\ Cardinality(LocationsOf(rows)) > 1
    /\ IsStationRDigits(rows[1]["station_id"], rows[i]["station_cell_id"])
    /\ i \in Located(rows)
    /\ (rows[i]["latitude"].n - main[1]) * (rows[i]["latitude"].n - main[1])
         + (rows[i]["longitude"].n - main[2]) * (rows[i]["longitude"].n - main[2])
           > distance_threshold * distance_threshold

\* C7: detect_extended_cells_in_station returns the cell identifiers of
\* exactly the sectors for which the station has more than one location,
\* the identifier is the station_id followed by R and digits, and the
\* distance to the main location, one with the most sectors, is above the
\* threshold; in particular none at or below the threshold and none whose
\* identifier does not match
FlaggedIffExtended ==
    DetectReturned =>
        LET rows == call.args.rows
        IN  IF Cardinality(LocationsOf(rows)) <= 1 THEN returned.value = <<>>
            ELSE \E main \in MostPopulated(rows) :
                    returned.value =
                        MapSeq(SelectRows(rows, {i \in 1..Len(rows) : IsExtended(rows, i, main)}),
                               LAMBDA r : r["station_cell_id"])

\* a call that flagged a sector and did not flag another one whose
\* identifier matches and which is at the threshold from the main location
FlaggedBeyondOnly ==
    /\ DetectReturned
    /\ Len(returned.value) = 1
    /\ \E i \in 1..Len(call.args.rows) :
          LET row == call.args.rows[i]
          IN  /\ IsStationRDigits(SidAB, row["station_cell_id"])
              /\ row["station_cell_id"] \notin Range(returned.value)
              /\ row["latitude"] = Num(LatMain + distance_threshold)
              /\ row["longitude"] = Num(LonMain)

ScoreReturned ==
    call.fn = "calculate_discrepancy_score" /\ returned.done

\* the non-empty entries of a list
NonEmpty(values_list) == {i \in 1..Len(values_list) : Truthy(values_list[i])}

DistinctTexts(values_list) ==
    Cardinality({PyStr(values_list[i]) : i \in NonEmpty(values_list)})

\* C9: calculate_discrepancy_score returns (k - 1) / n for a list of two
\* entries or more, k the number of distinct texts of its non-empty entries
\* and n the number of non-empty entries; 0 for the empty list, a list of
\* one entry and a list without non-empty entry; so 0 <= score < 1
ScoreIsDistinctOverTotal ==
    ScoreReturned =>
        LET values_list == call.args
            score == returned.value
            n == Cardinality(NonEmpty(values_list))
            k == DistinctTexts(values_list)
        IN  /\ score.den > 0
            /\ (Len(values_list) >= 2 /\ n > 0) => score.num * n = (k - 1) * score.den
            /\ (Len(values_list) <= 1 \/ n = 0) => score.num = 0
            /\ 0 <= score.num /\ score.num < score.den

\* a list of three non-empty entries, two of them with the same text,
\* scored 1/3
ScoredOneThird ==
    /\ ScoreReturned
    /\ Len(call.args) = 3
    /\ Cardinality(NonEmpty(call.args)) = 3
    /\ DistinctTexts(call.args) = 2
    /\ Cardinality(Range(call.args)) = 3
    /\ returned.value = [num |-> 1, den |-> 3]

TypeReturned ==
    call.fn = "select_best_structure_type" /\ returned.done

\* the configured priority of a candidate as it is written, -1 when it is
\* not a configured type
PriorityAsWritten(v) ==
    IF v.k = "str" THEN structure_type_priority(v.s) ELSE 0 - 1

\* C10 as stated: the result is one of the candidates that are not empty
\* and not the placeholder, of the highest priority among them and the
\* first such in input order; no value when there is no such candidate
FirstOfHighestPriority ==
    TypeReturned =>
        LET type_list == call.args
            kept == {i \in 1..Len(type_list) :
                        Truthy(type_list[i]) /\ type_list[i] # Str(TxtDash)}
        IN  IF kept = {} THEN returned.value = None
            ELSE \E i \in kept :
                    /\ returned.value = type_list[i]
                    /\ \A j \in kept :
                          PriorityAsWritten(type_list[j]) <= PriorityAsWritten(type_list[i])
                    /\ \A j \in kept :
                          j < i => PriorityAsWritten(type_list[j])
                                      < PriorityAsWritten(type_list[i])

\* the text of a candidate without the blanks around it
Trimmed(v) == Strip(PyStr(v))

\* C10: the same of the candidates taken without the blanks around them:
\* the placeholder is a candidate whose trimmed text is -, the priority is
\* that of the trimmed text, and the result is the trimmed text (the empty
\* text for a candidate made of blanks)
FirstOfHighestPriorityTrimmed ==
    TypeReturned =>
        LET type_list == call.args
            kept == {i \in 1..Len(type_list) :
                        Truthy(type_list[i]) /\ Trimmed(type_list[i]) # TxtDash}
            Priority(i) == structure_type_priority(Trimmed(type_list[i]))
        IN  IF kept = {} THEN returned.value = None
            ELSE \E i \in kept :
                    /\ returned.value = Str(Trimmed(type_list[i]))
                    /\ \A j \in kept : Priority(j) <= Priority(i)
                    /\ \A j \in kept : j < i => Priority(j) < Priority(i)

\* a call on a padded candidate of the highest priority that comes after
\* a candidate of a lower one and before another of the same priority
PaddedTypeSelected ==
    /\ TypeReturned
    /\ call.args = <<Str(TypeMast), Str(TxtTowerPadded), Str(TypeTower)>>
    /\ returned.value = Str(TypeTower)


(***************************************************************************)
(* The lookup of the blank filler                                          *)
(***************************************************************************)
\* the places of a table that hold a non-blank value of the field for the
\* station, as <<row, value>>
HeldIn(table, station_id, field) ==
    IF field \notin table.cols THEN {}
    ELSE {<<i, table.rows[i][field]>> : i \in {j \in StationRows(table.rows, station_id) :
                                                  ~IsBlankValue(table.rows[j][field])}}

\* the same for the sheets of the file, as <<sheet, row, value>>
HeldInSheets(sheets, station_id, field) ==
    UNION {{<<k, h[1], h[2]>> : h \in HeldIn(sheets[k], station_id, field)} :
              k \in 1..Len(sheets)}

HeldInGroup(by_station, station_id, field) ==
    IF by_station.loaded
    THEN {<<1, h[1], h[2]>> : h \in HeldIn(by_station, station_id, field)}
    ELSE {}

\* v is a value that no other value outnumbers among the places
MostFrequent(v, held) ==
    /\ \E h \in held : h[3] = v
    /\ \A w \in {h[3] : h \in held} :
          Cardinality({h \in held : h[3] = w}) <= Cardinality({h \in held : h[3] = v})

\* C8: every result of find_value_for_station_field is the most frequent
\* non-blank value of the sheets of the file when they hold one, and then
\* neither the template nor the baseline was read; else the most frequent
\* one of the template when it holds one, and then the baseline was not
\* read; else the most frequent one of the baseline; else not found
LookupPrecedence ==
    blank_filler.constructed =>
        \A n \in 1..Len(blank_filler.lookups) :
            LET lookup == blank_filler.lookups[n]
                in_sheets == HeldInSheets(blank_filler.all_sheets, lookup.station_id,
                                          lookup.field)
                in_template == HeldInGroup(blank_filler.template_by_station,
                                           lookup.station_id, lookup.field)
                in_baseline == HeldInGroup(blank_filler.physical_by_station,
                                           lookup.station_id, lookup.field)
            IN  IF in_sheets # {}
                THEN /\ MostFrequent(lookup.value, in_sheets)
                     /\ lookup.consulted \subseteq {"sheets"}
                ELSE IF in_template # {}
                THEN /\ MostFrequent(lookup.value, in_template)
                     /\ "physical" \notin lookup.consulted
                ELSE IF in_baseline # {}
                THEN MostFrequent(lookup.value, in_baseline)
                ELSE lookup.value = None

\* a file was saved after lookups that were answered by the sheets, by
\* the template ahead of a baseline that holds another value, and by the
\* cache
LookupsFromSheetsAndTemplate ==
    /\ blank_filler.constructed
    /\ blank_filler.saved
    /\ \E n \in 1..Len(blank_filler.lookups) :
          /\ blank_filler.lookups[n].field = "tx_type"
          /\ blank_filler.lookups[n].consulted = {"sheets"}
          /\ Truthy(blank_filler.lookups[n].value)
    /\ \E n \in 1..Len(blank_filler.lookups) :
          /\ blank_filler.lookups[n].field = "structure_owner"
          /\ blank_filler.lookups[n].consulted = {"sheets", "template"}
          /\ blank_filler.lookups[n].value = Str(TxtTelco)
          /\ HeldInGroup(blank_filler.physical_by_station, SidAB, "structure_owner") # {}
          /\ \E m \in (n + 1)..Len(blank_filler.lookups) :
                /\ blank_filler.lookups[m].field = "structure_owner"
                /\ blank_filler.lookups[m].station_id = SidAB
                /\ blank_filler.lookups[m].consulted = {}
                /\ blank_filler.lookups[m].value = Str(TxtTelco)


(***************************************************************************)
(* The owner selector                                                      *)
(***************************************************************************)
OwnerReturned == call.fn = "select_best_structure_owner" /\ returned.done

\* the candidates are texts or empty entries
AllTexts(lst) == \A i \in 1..Len(lst) : lst[i].k = "str" \/ ~Truthy(lst[i])

\* the non-empty candidates in capitals and without outer blanks
NormalisedOwners(lst) ==
    MapSeq(FilterSeq(lst, Truthy), LAMBDA o : Str(Strip(Upper(o.s))))

FirstIndexOf(s, x) == CHOOSE i \in 1..Len(s) : s[i] = x /\ \A j \in 1..(i - 1) : s[j] # x

CoordinateReturned ==
    call.fn \in {"select_best_latitude", "select_best_longitude"} /\ returned.done

AttributeOf(fn) ==
    CASE fn = "select_best_latitude" -> "latitude"
      [] fn = "select_best_longitude" -> "longitude"
      [] fn = "select_best_structure_height" -> "structure_height"

\* every non-empty candidate is a number or the text of one
AllNumbers(lst) == \A i \in 1..Len(lst) : Truthy(lst[i]) => ToFloat(lst[i]).ok

\* the non-empty candidates within the bounds of the attribute
InBounds(lst, attr) ==
    FilterSeq(MapSeq(FilterSeq(lst, Truthy), LAMBDA x : ToFloat(x).n),
              LAMBDA x : LowerBound(attr) <= x /\ x <= UpperBound(attr))

\* the k-th smallest entry of xs
KthSmallest(xs, k) ==
    CHOOSE v \in Range(xs) :
        /\ Cardinality({i \in 1..Len(xs) : xs[i] < v}) < k
        /\ Cardinality({i \in 1..Len(xs) : xs[i] <= v}) >= k

\* twice the median of xs: the middle entry twice, or the two middle ones
MiddleTwice(xs) == KthSmallest(xs, (Len(xs) + 1) \div 2) + KthSmallest(xs, Len(xs) \div 2 + 1)

\* r is x2 / 2 rounded to six decimals
IsRounded6(r, x2) ==
    /\ r % 10 = 0
    /\ 2 * r - x2 \in (0 - 10)..10
    /\ 2 * r - x2 \in {0 - 10, 10} => (r \div 10) % 2 = 0

\* the result is the rounded median of the candidates within the bounds,
\* whatever the threshold
MedianOfInBounds ==
    (CoordinateReturned /\ AllNumbers(call.args)) =>
        LET valid == InBounds(call.args, AttributeOf(call.fn))
        IN  IF valid = <<>> THEN returned.value = None
            ELSE /\ returned.value.k = "num"
                 /\ IsRounded6(returned.value.n, MiddleTwice(valid))
                 /\ \A t \in ThresholdValues :
                       SelectCoordinate(call.args, LowerBound(AttributeOf(call.fn)),
                                        UpperBound(AttributeOf(call.fn)), t)
                           = returned.value

HeightReturned == call.fn = "select_best_structure_height" /\ returned.done

NumericReturned ==
    /\ call.fn \in {"select_best_latitude", "select_best_longitude",
                    "select_best_structure_height"}
    /\ returned.done

\* some non-empty candidate is not the text of a number
SomeNoNumber(lst) == \E i \in 1..Len(lst) : Truthy(lst[i]) /\ ~ToFloat(lst[i]).ok

\* C20: a numeric selector whose candidate list holds a non-empty entry
\* that is not a number returns nothing, whatever the other candidates
\* are, and does not raise
NoNumberNoValue ==
    (NumericReturned /\ SomeNoNumber(call.args)) => returned.value = None

\* nothing was returned for a height within the bounds followed by a text
\* that is no number
ValidHeightDropped ==
    /\ NumericReturned
    /\ call.args = <<Str(PyStr(Num(30 * One))), Str(TxtNoNumber)>>
    /\ call.fn = "select_best_structure_height"
    /\ returned.value = None


(***************************************************************************)
(* The name selector                                                       *)
(***************************************************************************)
NameReturned == call.fn = "select_best_name" /\ returned.done

\* the candidates that are not blank, trimmed
TrimmedNames(lst) ==
    MapSeq(FilterSeq(lst, LAMBDA n : ~IsNa(n) /\ Strip(PyStr(n)) # <<>>),
           LAMBDA n : Strip(PyStr(n)))

\* name is the first of the longest of names
IsFirstLongest(name, names) ==
    \E i \in 1..Len(names) :
        /\ names[i] = name
        /\ \A j \in 1..Len(names) : Len(names[j]) <= Len(name)
        /\ \A j \in 1..(i - 1) : Len(names[j]) < Len(name)

\* C14: select_best_name returns nothing when no candidate is non-empty;
\* else the answer of the template manager when one is active and answers
\* for the site; else the longest trimmed candidate, the first one of the
\* longest
TemplateAnswerElseLongest ==
    NameReturned =>
        LET names == TrimmedNames(call.args)
            answer == IF call.tm.active
                      THEN get_reference_name(call.tm, call.station_id, names)
                      ELSE None
        IN  IF names = <<>> THEN returned.value = None
            ELSE IF answer # None THEN returned.value = answer
            ELSE /\ returned.value.k = "str"
                 /\ IsFirstLongest(returned.value.s, names)

\* the name of the template was returned though it is neither a candidate
\* nor as long as the longest one
TemplateNameOverLongest ==
    /\ NameReturned
    /\ call.tm.active
    /\ call.args = <<Str(TxtNameOther), Str(TxtNameLong)>>
    /\ returned.value = Str(TxtName)


(***************************************************************************)
(* The reference name of the template                                      *)
(***************************************************************************)
ReferenceReturned == call.fn = "get_reference_name" /\ returned.done

\* the rows of the template that are of the site and have a name
NamedRows(tm, station_id) ==
    IF "name" \notin tm.cols \/ "station_id" \notin tm.cols THEN {}
    ELSE {i \in 1..Len(tm.rows) :
             tm.rows[i]["station_id"] = station_id /\ ~IsNa(tm.rows[i]["name"])}

\* the name of the first of them
TemplateNameOf(tm, station_id) ==
    tm.rows[CHOOSE i \in NamedRows(tm, station_id) :
                \A j \in NamedRows(tm, station_id) : i <= j]["name"]

\* x >= y for fractions with positive denominators
FracGe(x, y) == x.num * y.den >= y.num * x.den

\* C15: get_reference_name answers nothing exactly when the template has
\* no row with a name for the site; with such a row and candidates, it
\* answers the name of the template when it is a candidate, else the
\* candidate most similar to it when fuzzy matching is on and the
\* similarity reaches the threshold, else the name of the template
ReferenceNameCases ==
    ReferenceReturned =>
        IF NamedRows(call.tm, call.station_id) = {} THEN returned.value = None
        ELSE LET template_name == TemplateNameOf(call.tm, call.station_id)
                 Similarity(c) == calculate_name_similarity(template_name.s, c)
                 close == {i \in 1..Len(call.args) :
                              FracGe(Similarity(call.args[i]), similarity_threshold)}
             IN  /\ returned.value # None
                 /\ call.args # <<>> =>
                       IF \E i \in 1..Len(call.args) : call.args[i] = template_name.s
                       THEN returned.value = template_name
                       ELSE IF use_fuzzy_matching /\ close # {}
                       THEN \E i \in close :
                               /\ returned.value = Str(call.args[i])
                               /\ \A j \in 1..Len(call.args) :
                                      FracGe(Similarity(call.args[i]),
                                             Similarity(call.args[j]))
                       ELSE returned.value = template_name

\* of two candidates close to the name of the template, which is not a
\* candidate, the closer one was returned
CloserCandidateReturned ==
    /\ ReferenceReturned
    /\ call.args = <<TxtNameOther, TxtNamePax, TxtNameDotted>>
    /\ NamedRows(call.tm, call.station_id) # {}
    /\ TemplateNameOf(call.tm, call.station_id) = Str(TxtName)
    /\ returned.value = Str(TxtNameDotted)


(***************************************************************************)
(* The constructor of the engine                                           *)
(***************************************************************************)
ConstructionReturned == call.fn = "__init__" /\ returned.done

\* C16: the constructor raises exactly when some sheet of the baseline
\* workbook lacks one of the seven required columns
RaisesIffSheetLacksRequired ==
    ConstructionReturned =>
        ((returned.value = Raise)
            <=> \E i \in 1..Len(call.args) : ~(required_columns \subseteq call.args[i].cols))


(***************************************************************************)
(* A site that is in no sheet                                              *)
(***************************************************************************)
AbsentFrom(sheets, station_id) ==
    \A k \in 1..Len(sheets) : \A r \in 1..Len(sheets[k].rows) : sheets[k].rows[r]["station_id"] # station_id

\* C17: apply_corrections for a site that is in no row of any sheet
\* returns no record and leaves the sheets and the consolidated table as
\* they were, and the loop goes on: the rows of the batch are handled one
\* after the other, all of them by the end
AbsentSiteUntouched ==
    /\ \A i \in 1..Len(trace) :
          /\ i <= Len(df_anomalous)
          /\ trace[i].station_id = df_anomalous[i]["station_id"]
          /\ (~trace[i].raised /\ AbsentFrom(trace[i].before.sheets, trace[i].station_id))
                => /\ trace[i].corrections = <<>>
                   /\ trace[i].after = trace[i].before
    /\ pc = "done" => Len(trace) = Len(df_anomalous)

\* a site that is in no sheet was handled, and the site after it was
\* corrected
AbsentSiteThenCorrected ==
    \E i \in 1..Len(trace) :
        /\ ~trace[i].raised
        /\ AbsentFrom(trace[i].before.sheets, trace[i].station_id)
        /\ i < Len(trace)
        /\ trace[i + 1].corrections # <<>>


(***************************************************************************)
(* The marks of the extended cells                                         *)
(***************************************************************************)
\* the cell identifiers detected for the sites handled so far
DetectedSoFar == UNION {Range(trace[i].extended_cells) : i \in 1..Len(trace)}

\* the rows of the sheet that hold one of the identifiers
RowsOfCells(sheet, cells) ==
    {i \in 1..Len(sheet.rows) : sheet.rows[i]["station_cell_id"] \in cells}

\* C19 as stated: once a site was handled, the rows of every sheet that
\* hold a cell identifier detected for it have the cell_type of an
\* extended cell, from then on
DetectedCellsMarked ==
    \A k \in 1..Len(all_sheets) :
        \A i \in RowsOfCells(all_sheets[k], DetectedSoFar) :
            all_sheets[k].rows[i]["cell_type"] = Str(ExtendedCellMarker)

\* C19, amended: once a site was handled, the rows of every sheet with a
\* cell_type column that hold a cell identifier detected for it have the
\* cell_type of an extended cell, from then on
DetectedCellsMarkedWhereTyped ==
    \A k \in 1..Len(all_sheets) :
        "cell_type" \in all_sheets[k].cols =>
            \A i \in RowsOfCells(all_sheets[k], DetectedSoFar) :
                all_sheets[k].rows[i]["cell_type"] = Str(ExtendedCellMarker)

\* a cell detected for a site is marked in a sheet while the site handled
\* after it was corrected
MarkKeptAfterCorrection ==
    \E n \in 1..Len(trace) :
        /\ trace[n].extended_cells # <<>>
        /\ n < Len(trace)
        /\ trace[n + 1].corrections # <<>>
        /\ \E k \in 1..Len(all_sheets) :
              \E i \in RowsOfCells(all_sheets[k], Range(trace[n].extended_cells)) :
                  all_sheets[k].rows[i]["cell_type"] = Str(ExtendedCellMarker)


(***************************************************************************)
(* The end of main                                                         *)
(***************************************************************************)
\* C18: once the engine is constructed, no failure of a later step of main
\* ends the process with a fatal error
NeverFatal == main_frame.exit # "fatal"


(***************************************************************************)
(* The lookup cache of the blank filler                                    *)
(***************************************************************************)
\* what a search of the three sources returns for the pair, no cache used
UncachedSearch(filler, station_id, field) ==
    find_value_for_station_field([filler EXCEPT !.value_cache = <<>>], station_id, field,
                                 filler.all_sheets).value

\* every lookup made so far is in the cache with its result, a later lookup
\* of the same pair reads no source and returns the same, and every entry
\* of the cache is what a search would return now
CacheAgrees ==
    blank_filler.constructed =>
        /\ \A n \in 1..Len(blank_filler.lookups) :
              LET lookup == blank_filler.lookups[n]
                  cache_key == <<lookup.station_id, lookup.field>>
              IN  /\ cache_key \in DOMAIN blank_filler.value_cache
                  /\ blank_filler.value_cache[cache_key] = lookup.value
                  /\ \A m \in 1..(n - 1) :
                        (blank_filler.lookups[m].station_id = lookup.station_id
                           /\ blank_filler.lookups[m].field = lookup.field)
                            => /\ lookup.value = blank_filler.lookups[m].value
                               /\ lookup.consulted = {}
        /\ \A cache_key \in DOMAIN blank_filler.value_cache :
              blank_filler.value_cache[cache_key]
                  = UncachedSearch(blank_filler, cache_key[1], cache_key[2])

\* process_file leaves the sheets that are searched as they were read
SearchedSheetsKept ==
    blank_filler.constructed => blank_filler'.all_sheets = blank_filler.all_sheets

\* C21: throughout process_file the result of every lookup, not-found
\* included, is cached under its pair, a later lookup of the pair returns
\* it without reading a source, every cache entry is what an uncached
\* search returns, and the searched sheets are never modified
CacheConsistent == []CacheAgrees /\ [][SearchedSheetsKept]_vars

\* a pair that no source holds was looked up for both sheets, the second
\* time from the cache, while another pair was filled
NotFoundServedFromCache ==
    /\ blank_filler.constructed
    /\ blank_filler.saved
    /\ \E n \in 1..Len(blank_filler.lookups) : \E m \in 1..(n - 1) :
          /\ blank_filler.lookups[m].station_id = blank_filler.lookups[n].station_id
          /\ blank_filler.lookups[m].field = blank_filler.lookups[n].field
          /\ blank_filler.lookups[m].consulted # {}
          /\ blank_filler.lookups[m].value = None
          /\ blank_filler.lookups[n].consulted = {}
    /\ blank_filler.filled_sheets # blank_filler.all_sheets


(***************************************************************************)
(* What the template adds to the resolved record                           *)
(***************************************************************************)
\* the record handed to fill_missing_parameters for the current site: the
\* selected values after complete_blank_fields
CompletedFromSheets ==
    Bind(Candidates(df_anomalous[idx]), LAMBDA lists :
        complete_blank_fields(all_sheets, Station,
            SelectedValues(template_manager, lists, Station, site_start.extended_cells,
                           avg_discrepancy(DiscrepancyScores(lists))),
            df_anomalous[idx]["technology"]))

\* current_values.get(param)
ResolvedBefore(record, param) == IF param \in record.keys THEN record.val[param] ELSE None

\* a key of the record that fill_missing_parameters returned differs from
\* the record it was given
KeyChanged(before, after, c) ==
    \/ (c \in before.keys) # (c \in after.keys)
    \/ before.val[c] # after.val[c]

\* C22: with a template manager, the resolved record differs from the
\* record completed from the sheets only in structure_owner, structure_type
\* and tx_type, each changed only when its completed value was blank (absent,
\* null, empty after trimming, or the dash) and then set to the reference
\* value the template has for the site; a non-blank completed value stays
TemplateFillsOnlyBlanks ==
    (pc = "apply" /\ template_manager.active) =>
        Bind(CompletedFromSheets, LAMBDA completed :
            /\ correct_values.station_id = completed.station_id
            /\ correct_values.discrepancy_score = completed.discrepancy_score
            /\ correct_values.has_extended_cells = completed.has_extended_cells
            /\ \A c \in Columns :
                  KeyChanged(completed, correct_values, c) =>
                      /\ c \in Range(FillableParams)
                      /\ IsEmptyParameter(ResolvedBefore(completed, c))
                      /\ c \in correct_values.keys
                      /\ correct_values.val[c] # None
                      /\ correct_values.val[c] = get_reference_value(template_manager, Station, c)
            /\ \A c \in Range(FillableParams) :
                  ~IsEmptyParameter(ResolvedBefore(completed, c))
                      => correct_values.val[c] = completed.val[c])

\* the owner was blank in the anomalous row and found in the sheets, the
\* template holds another owner and the sheets' owner is kept, while
\* tx_type is taken from the template
SheetOwnerKeptTxTypeFilled ==
    /\ pc = "apply"
    /\ template_manager.active
    /\ df_anomalous[idx]["structure_owner"] = NaN
    /\ correct_values.val["structure_owner"] = Str(TxtAcme)
    /\ get_reference_value(template_manager, Station, "structure_owner") = Str(TxtTelco)
    /\ "tx_type" \in correct_values.keys
    /\ correct_values.val["tx_type"] = Str(TxtRadio)


(***************************************************************************)
(* The rows of a corrected site agree                                      *)
(***************************************************************************)
\* a cell holds the value: a resolved None is held as a missing value
\* (NaN in a float column, None in an object column)
Holds(cell, value) == cell = value \/ (value = None /\ IsNa(cell))

\* C23: after apply_corrections for a site, for every attribute of the
\* resolved record that is not skipped, all the rows of the site in every
\* sheet that has the column hold the resolved value
SiteRowsHoldResolved ==
    \A i \in 1..Len(trace) :
        ~trace[i].raised =>
            \A k \in 1..Len(trace[i].after.sheets) :
                LET sid == trace[i].station_id
                    new == trace[i].after.sheets[k]
                    cv == trace[i].correct_values
                IN  \A p \in AppliedParams(cv) \cap new.cols :
                        \A r \in StationRows(new.rows, sid) :
                            Holds(new.rows[r][p], cv.val[p])

\* a site with rows in both sheets whose rows of the first sheet disagreed
\* on an attribute, the first of them holding the resolved value already
MixedRowsBroughtToResolved ==
    \E i \in 1..Len(trace) :
        /\ ~trace[i].raised
        /\ \A k \in 1..Len(trace[i].marked) :
              StationRows(trace[i].marked[k].rows, trace[i].station_id) # {}
        /\ \E p \in AppliedParams(trace[i].correct_values) :
              LET old_values == OldValues(trace[i].marked[1].rows, trace[i].station_id, p)
              IN  /\ Len(old_values) > 1
                  /\ old_values[1] = trace[i].correct_values.val[p]
                  /\ \A k \in 1..Len(trace[i].after.sheets) :
                        StoredSet(trace[i].after.sheets[k].rows, trace[i].station_id, p)
                            = {trace[i].correct_values.val[p]}


(***************************************************************************)
(* The rows of the other sites                                             *)
(***************************************************************************)
\* the rows of a table that belong to another station
OtherRows(rows, station_id) == {r \in 1..Len(rows) : rows[r]["station_id"] # station_id}

\* the row carries one of the identifiers detected for the site handled
SharesDetectedCell(row, extended_cells) == row["station_cell_id"] \in Range(extended_cells)

\* handling one site left every row of the other stations as it was
OtherSitesUntouched ==
    \A i \in 1..Len(trace) :
        /\ \A k \in 1..Len(trace[i].before.sheets) :
              \A r \in OtherRows(trace[i].before.sheets[k].rows, trace[i].station_id) :
                  trace[i].after.sheets[k].rows[r] = trace[i].before.sheets[k].rows[r]
        /\ \A r \in OtherRows(trace[i].before.physical.rows, trace[i].station_id) :
              trace[i].after.physical.rows[r] = trace[i].before.physical.rows[r]

\* C24: processing and correcting one site changes no cell of a row of a
\* different station_id, in any sheet and in the consolidated table, but
\* the cell_type of a row of a sheet that carries a cell identifier
\* detected as extended for the site, which receives the marker
OtherSitesUntouchedButSharedCells ==
    \A i \in 1..Len(trace) :
        /\ \A k \in 1..Len(trace[i].before.sheets) :
              \A r \in OtherRows(trace[i].before.sheets[k].rows, trace[i].station_id) :
                  LET old == trace[i].before.sheets[k].rows[r]
                      new == trace[i].after.sheets[k].rows[r]
                  IN  IF /\ SharesDetectedCell(old, trace[i].extended_cells)
                         /\ "cell_type" \in trace[i].before.sheets[k].cols
                      THEN new = [old EXCEPT !["cell_type"] = Str(ExtendedCellMarker)]
                      ELSE new = old
        /\ \A r \in OtherRows(trace[i].before.physical.rows, trace[i].station_id) :
              trace[i].after.physical.rows[r] = trace[i].before.physical.rows[r]

\* a site was corrected, a row of another station carrying the identifier of
\* its extended cell was marked and the other station's remaining rows and
\* cells stayed
SharedCellOfOtherSiteMarked ==
    \E i \in 1..Len(trace) :
        /\ ~trace[i].raised
        /\ trace[i].corrections # <<>>
        /\ \E r \in OtherRows(trace[i].before.sheets[1].rows, trace[i].station_id) :
              /\ SharesDetectedCell(trace[i].before.sheets[1].rows[r], trace[i].extended_cells)
              /\ trace[i].before.sheets[1].rows[r]["cell_type"] # Str(ExtendedCellMarker)
              /\ trace[i].after.sheets[1].rows[r]["cell_type"] = Str(ExtendedCellMarker)
              /\ trace[i].after.sheets[1].rows[r]["structure_owner"]
                    = trace[i].before.sheets[1].rows[r]["structure_owner"]


(***************************************************************************)
(* The correction log as an audit of the overwrites                        *)
(***************************************************************************)
\* apply_corrections overwrote the attribute of the site in the sheet: the
\* rows of the site do not hold what they held after the marking
Overwritten(entry, k, p) ==
    StoredColumn(entry.after.sheets[k].rows, entry.station_id, p)
        # StoredColumn(entry.marked[k].rows, entry.station_id, p)

\* C25: when process_anomalous_file has returned, every overwrite of a site
\* attribute made in a sheet during the batch has a CorrectionRecord of the
\* same site, sheet, attribute and new value in corrections_log, also when
\* apply_corrections raised after the overwrite
AuditComplete ==
    pc = "done" =>
        \A i \in 1..Len(trace) :
            \A k \in 1..Len(trace[i].marked) :
                \A p \in Columns \ {"cell_type"} :
                    Overwritten(trace[i], k, p) =>
                        \E j \in 1..Len(corrections_log) :
                            /\ corrections_log[j].station_id = trace[i].station_id
                            /\ corrections_log[j].sheet_name = trace[i].marked[k].name
                            /\ corrections_log[j].parameter = p
                            /\ \A v \in StoredSet(trace[i].after.sheets[k].rows,
                                                   trace[i].station_id, p) :
                                  Holds(v, corrections_log[j].new_value)


(***************************************************************************)
(* The numeric values written into the sheets                              *)
(***************************************************************************)
\* C26: every latitude, longitude or structure_height value written into a
\* sheet while a site is processed lies within the configured bounds of
\* its attribute, so that an out-of-bounds value stored in a sheet is not
\* propagated to the other rows of the site
WrittenWithinBounds ==
    \A i \in 1..Len(trace) :
        \A j \in 1..Len(trace[i].corrections) :
            LET record == trace[i].corrections[j]
            IN  (record.parameter \in NumericParams /\ ~IsNa(record.new_value)) =>
                    /\ record.new_value.k = "num"
                    /\ LowerBound(record.parameter) <= record.new_value.n
                    /\ record.new_value.n <= UpperBound(record.parameter)


(***************************************************************************)
(* The tx_type of the template                                             *)
(***************************************************************************)
\* C27: with an active template manager, processing a site leaves every
\* non-blank tx_type stored in a row of a sheet as it is: the tx_type of
\* the template reaches only the rows of the site whose tx_type is blank
StoredTxTypeKept ==
    template_manager.active =>
        \A i \in 1..Len(trace) :
            \A k \in 1..Len(trace[i].before.sheets) :
                "tx_type" \in trace[i].before.sheets[k].cols =>
                    \A r \in 1..Len(trace[i].before.sheets[k].rows) :
                        ~IsBlankValue(trace[i].before.sheets[k].rows[r]["tx_type"]) =>
                            trace[i].after.sheets[k].rows[r]["tx_type"]
                                = trace[i].before.sheets[k].rows[r]["tx_type"]


(***************************************************************************)
(* apply_corrections called twice                                          *)
(***************************************************************************)
\* apply_corrections called again for the site of a trace entry, with the
\* same resolved record, on the tables the first call left
AppliedAgain(entry) ==
    apply_corrections(entry.after.sheets, entry.after.physical, template_manager,
                      entry.station_id, entry.correct_values)

\* C28: a second call of apply_corrections with the same site and the same
\* resolved record, directly after the first, emits no CorrectionRecord
\* and changes no cell of any sheet, whatever record the engine resolved
\* (unresolved attributes included)
ApplyCorrectionsIdempotent ==
    \A i \in 1..Len(trace) :
        ~trace[i].raised =>
            Bind(AppliedAgain(trace[i]), LAMBDA again :
                /\ again.corrections_made = <<>>
                /\ again.sheets = trace[i].after.sheets)


(***************************************************************************)
(* What fill_blanks_in_sheet changes                                       *)
(***************************************************************************)
\* the sheets filled so far differ from the sheets read only in cells of
\* the target fields that were blank
FilledOnlyBlankTargets ==
    blank_filler.constructed =>
        \A k \in 1..Len(blank_filler.filled_sheets) :
            LET given == blank_filler.all_sheets[k]
                filled == blank_filler.filled_sheets[k]
            IN  /\ filled.name = given.name
                /\ filled.cols = given.cols
                /\ Len(filled.rows) = Len(given.rows)
                /\ \A r \in 1..Len(given.rows) : \A c \in Columns :
                      filled.rows[r][c] # given.rows[r][c] =>
                          /\ c \in Range(target_fields)
                          /\ is_blank(given.rows[r][c])

\* C29: fill_blanks_in_sheet changes only cells of structure_owner,
\* structure_type and tx_type that were blank before the call, every other
\* cell is returned as it was, and the sheets passed in as all_sheets are
\* not mutated
FillChangesOnlyBlanks == []FilledOnlyBlankTargets /\ [][SearchedSheetsKept]_vars

\* in one sheet a blank cell was filled while another row kept a
\* different, non-blank value of the same field
BlankFilledBesideKeptValue ==
    /\ blank_filler.constructed
    /\ \E k \in 1..Len(blank_filler.filled_sheets) :
          LET given == blank_filler.all_sheets[k].rows
              filled == blank_filler.filled_sheets[k].rows
          IN  \E r1 \in 1..Len(given), r2 \in 1..Len(given) : \E f \in Range(target_fields) :
                /\ is_blank(given[r1][f])
                /\ ~is_blank(filled[r1][f])
                /\ ~is_blank(given[r2][f])
                /\ given[r2][f] # filled[r1][f]
                /\ filled[r2][f] = given[r2][f]


(***************************************************************************)
(* The reference value of the template                                     *)
(***************************************************************************)
ReferenceValueReturned == call.fn = "get_reference_value" /\ returned.done

\* the cells of the parameter in the site's template rows that are neither
\* null, nor empty after trimming, nor the dash
NonBlankCells(tm, station_id, parameter) ==
    FilterSeq(ColumnValues(get_station_data(tm, station_id), parameter),
              LAMBDA v : ~IsEmptyParameter(v))

\* C30: get_reference_value returns no value or a value that is not empty
\* and not the dash, and when the template rows of the site hold several
\* distinct non-blank values of the parameter it returns one of them that
\* no other of them outnumbers
ReferenceValueNeverBlank ==
    ReferenceValueReturned =>
        Bind(NonBlankCells(call.tm, call.station_id, call.args), LAMBDA cells :
            /\ returned.value = None \/ ~IsEmptyParameter(returned.value)
            /\ Cardinality(Range(cells)) > 1 =>
                  /\ returned.value \in Range(cells)
                  /\ \A v \in Range(cells) :
                        CountOf(cells, v) <= CountOf(cells, returned.value))

=============================================================================
